---- MODULE Spec2Model ----
(***************************************************************************)
(* The Source Session Manager of audio-canvas (the useAudioEngine hook):   *)
(* its React state, its refs, the platform objects the refs point to, and  *)
(* every call in flight, suspended at one of its awaits.                   *)
(*                                                                         *)
(* One action is one run-to-completion piece of JavaScript: a call up to   *)
(* its first await that really suspends, or the continuation after such an *)
(* await up to the next one (or up to the end of the call).  Awaits of an  *)
(* already settled promise (an async function that returned, a thrown      *)
(* validation error) continue in the same task and are part of the same    *)
(* action.  A callback reads `state` and `activeSource` from the closure   *)
(* of the render it was taken from: a call captures both when it is made,  *)
(* while refs are read when the line runs.                                 *)
(***************************************************************************)
EXTENDS Integers, Sequences, FiniteSets

\* ---------------------------------------------------------------- bounds
\* Last instant of the engine clock (context.currentTime) the model reaches.
\* The clock's unit is the period of the elapsed-time sampler (200 ms).
MaxClock == 3
\* How many loadSource calls are made in a run.
MaxLoadCalls == 2
\* How many play and seekTo calls may be in flight at the same time.
MaxTransport == 1
\* Longest decoded file, in clock units; files last 1..MaxFileDur.
MaxFileDur == 2
\* How many instrument tones are created in a run.
MaxTones == 1
\* Longest score the Sequencer is given.
MaxScoreLen == 2
\* Last instant of the Sequencer's clock, in base units of 31.25 ms.
MaxSeqClock == 5
\* Last instant of the clock when the scenario score is played.
MaxScenarioClock == 50
\* The sample rate of the audio context the synthesizer runs in, in samples
\* per second.
sampleRate == 1
\* The most channels an output of the synthesizer has.
MaxChannels == 2
\* The most frames a block of the synthesizer has.
MaxFrames == 2
\* Duration of every media resource, in clock units.
MediaDur == MaxFileDur

\* ------------------------------------------------------------ option type
\* A ref holding `null` is None, a ref holding v is Some(v).
None == << >>
Some(v) == << v >>
Val(o) == o[1]

Min(a, b) == IF a < b THEN a ELSE b
Max(a, b) == IF a > b THEN a ELSE b

\* ------------------------------------------------------------------ state
VARIABLES
  state,            \* useState<PlaybackState>
  activeSource,     \* useState: "none" is null
  errorMessage,     \* useState: "" is null
  currentTime,      \* useState
  duration,         \* useState
  ctx,              \* audioContextRef.current exists
  now,              \* audioContextRef.current.currentTime
  mExists,          \* mediaElementRef.current exists
  mStatus,          \* the resource of audio.src: "empty" (no src yet),
                    \* "loading", "ready" (readyState >= 2) or "error"
  mPaused,          \* audio.paused
  mTime,            \* audio.currentTime
  bufferSource,     \* bufferSourceRef.current: None, or Some(b) for a started
                    \* instance whose sample 0 falls on clock instant b
  decodedBuffer,    \* decodedBufferRef.current: None or Some(duration)
  bufferOffset,     \* bufferOffsetRef.current
  bufferStartedAt,  \* bufferStartedAtRef.current
  staleArmed,       \* an instance that is no longer referenced still has its
                    \* onended handler, and its `ended` event is to come
  streamNode,       \* streamNodeRef.current exists
  synthActive,      \* the referenced node's processor has isActive = true
  orphanSynth,      \* a node no longer referenced is still connected and active
  streamModuleLoaded, \* streamModuleLoadedRef.current
  streamStartedAt,  \* streamStartedAtRef.current
  streamOffset,     \* streamOffsetRef.current
  calls,            \* the calls suspended at an await, oldest await first
  tones,            \* how many enveloped tones triggerInstrumentNote created
  loadCalls,        \* how many loadSource calls have been made
  lastCall,         \* the session call the step just taken made: "load",
                    \* "play", "seek", "pause", "stop" ("pause-again",
                    \* "stop-again" when repeated); "" after a
                    \* continuation or an event; the sampler's tick and
                    \* triggerInstrumentNote leave it
  stopped,          \* the backends the step just taken silenced
  loadResult,       \* what the step just taken settled a loadSource promise
                    \* with: "resolved", "rejected", or "none" when it settled none
  lastLoad,         \* the kind of the descriptor of the loadSource call made
                    \* last, "none" before the first
  \* The Score Sequencer (useScorePlayer) and the application around it.
  seqScore,         \* the score of the last play(score)
  seqIsPlaying,     \* useState isPlaying
  seqCurrentIndex,  \* useState currentIndex: None is null
  highlight,        \* what onHighlightNote was last called with: None is null
  seqTimers,        \* the timeouts pending: next entry and due instant
  seqNow,           \* the wall clock, in base units
  seqLog,           \* the entries playNext processed since the last play():
                    \* entry, note index resolved (None: no trigger), instant
  seqDoneAt,        \* when playNext signalled completion since the last play()
  seqReplaced,      \* how many pending timeouts the last play() cleared
  seqCaptured,      \* the activeSource held by the onPlayNote callback the
                    \* last play() closed over
  disposed,         \* the component was unmounted
  \* The Real-Time Chord Synthesizer (HarmonicGenerator).
  built,            \* the processor was constructed
  isActive,         \* this.isActive
  samplesSinceChange, \* this.samplesSinceChange
  voices,           \* this.voices: a sequence of [freq, phase]
  output,           \* outputs[0] of the block being processed, or of the last
                    \* one: None when absent, else per channel the samples
                    \* written so far
  blockPos,         \* process()'s position in its loops: None outside a block
  blockGains,       \* parameters.gain of the block
  blockRendered,    \* the renderSample calls of the block made while active
  lastSample,       \* what the renderSample call of the step just taken returned
  chordRun,         \* the active samples the current chord sounded in a row,
                    \* since it was created or a deactivation was processed
  chordBroken,      \* a deactivation was processed since the chord was created
  chordFirst,       \* the current chord is the one of the constructor
  replacedNow       \* the step just taken replaced the chord

reactVars == << state, activeSource, errorMessage, currentTime, duration >>
mediaVars == << mExists, mStatus, mPaused, mTime >>
fileVars == << bufferSource, decodedBuffer, bufferOffset, bufferStartedAt, staleArmed >>
streamVars == << streamNode, synthActive, orphanSynth, streamModuleLoaded,
                 streamStartedAt, streamOffset >>
seqVars == << seqScore, seqIsPlaying, seqCurrentIndex, highlight, seqTimers,
             seqNow, seqLog, seqDoneAt, seqReplaced, seqCaptured >>
engineVars == << reactVars, ctx, now, mediaVars, fileVars, streamVars, calls, tones,
                 loadResult, stopped, loadCalls, lastCall, lastLoad >>
synthVars == << built, isActive, samplesSinceChange, voices, output, blockPos,
               blockGains, blockRendered, lastSample, chordRun, chordBroken,
               chordFirst, replacedNow >>
vars == << engineVars, seqVars, disposed, synthVars >>

\* ------------------------------------------------------------- vocabulary
PlaybackState == {"idle", "loading", "ready", "playing", "paused", "error"}
Kinds == {"url", "file", "stream", "instrument"}

\* The messages of the errors the hook throws ("" stands for null).
MsgBadUrl == "invalid-url"
MsgBadType == "non-audio-file"
MsgMedia == "media-load-failed"
\* A decode rejection whose error carries an empty message.
MsgDecodeEmpty == ""
MsgDecode == "decode-failed"
MsgWorklet == "worklet-load-failed"

\* The step makes no call; the step makes the call op.  A pause() or stop()
\* directly after the same call is recorded as such.
NoCall == ""
Again(op) == IF op = "pause" THEN "pause-again" ELSE "stop-again"
LastWas(op) == lastCall \in {op, Again(op)}
Made(op) == IF op \in {"pause", "stop"} /\ LastWas(op) THEN Again(op) ELSE op

\* A call suspended at an await.  op: "load", "play" or "seek"; pc: the await
\* it is suspended at; src: the source kind it works on (the descriptor's kind
\* for a load, the captured activeSource for play and seek); arg: the offset
\* startFilePlayback was called with; solo: for a load, no other call has been
\* made since it started; for play and seek, no stop(), pause() or
\* loadSource() has been made since it started.
Call(op, pc, src, arg, solo) ==
  [op |-> op, pc |-> pc, src |-> src, arg |-> arg, solo |-> solo]

ResumePcs == {"resume", "resume2"}

\* A call suspended at the await of an async function of the hook that has
\* returned: its continuation is a job in the microtask queue.
MicroPcs == {"ensured", "started"}

\* No continuation waits in the microtask queue: the event loop may run a
\* new task (a call by the user, an event, a timer, a promise of the
\* platform settling).
InTask == \A j \in 1..Len(calls) : calls[j].pc \notin MicroPcs

\* The jobs of the microtask queue run in the order they were queued.
MicroIsNext(i) ==
  /\ calls[i].pc \in MicroPcs
  /\ \A j \in 1..(i - 1) : calls[j].pc \notin MicroPcs

\* context.resume() promises settle in the order they were made, several of
\* them in one task: call i may continue after its resume when no older call
\* waits for one.  The continuations of the promises settled in one task
\* run before the jobs they queue; a resume made while such a job is queued
\* (the call stands behind it in calls) settles in a later task.
ResumeIsNext(i) ==
  /\ calls[i].pc \in ResumePcs
  /\ \A j \in 1..(i - 1) : calls[j].pc \notin (ResumePcs \cup MicroPcs)

\* The calls in flight with one of the operations ops.
InFlight(ops) == Len(SelectSeq(calls, LAMBDA c : c.op \in ops))
MaxInFlight == MaxLoadCalls + MaxTransport + MaxTones

RemoveAt(s, i) == [j \in 1..(Len(s) - 1) |-> IF j < i THEN s[j] ELSE s[j + 1]]

\* stop(), pause() or loadSource() is called: no load, play or seek in flight
\* is the latest any more.
Supersede(s) ==
  [j \in 1..Len(s) |-> IF s[j].op = "note" THEN s[j] ELSE [s[j] EXCEPT !.solo = FALSE]]

\* play() or seekTo() is called: the loads in flight no longer run alone.
Overlap(s) ==
  [j \in 1..Len(s) |-> IF s[j].op = "load" THEN [s[j] EXCEPT !.solo = FALSE] ELSE s[j]]

\* Call i goes on to its next await.
Await(i, pc, arg) ==
  Append(RemoveAt(calls, i), [calls[i] EXCEPT !.pc = pc, !.arg = arg])

\* The promises of audio.play() still pending are rejected (AbortError) when
\* the element is paused or given a new src: the calls awaiting them throw.
RejectPlayPromises(s) == SelectSeq(s, LAMBDA c : c.pc # "mplay")

Init ==
  /\ state = "idle"
  /\ activeSource = "none"
  /\ errorMessage = ""
  /\ currentTime = 0
  /\ duration = 0
  /\ ctx = FALSE
  /\ now = 0
  /\ mExists = FALSE
  /\ mStatus = "empty"
  /\ mPaused = TRUE
  /\ mTime = 0
  /\ bufferSource = None
  /\ decodedBuffer = None
  /\ bufferOffset = 0
  /\ bufferStartedAt = None
  /\ staleArmed = FALSE
  /\ streamNode = FALSE
  /\ synthActive = FALSE
  /\ orphanSynth = FALSE
  /\ streamModuleLoaded = FALSE
  /\ streamStartedAt = None
  /\ streamOffset = 0
  /\ calls = << >>
  /\ loadResult = "none"
  /\ stopped = {}
  /\ seqScore = << >>
  /\ seqIsPlaying = FALSE
  /\ seqCurrentIndex = None
  /\ highlight = None
  /\ seqTimers = << >>
  /\ seqNow = 0
  /\ seqLog = << >>
  /\ seqDoneAt = None
  /\ seqReplaced = 0
  /\ seqCaptured = "none"
  /\ disposed = FALSE
  /\ built = FALSE
  /\ isActive = FALSE
  /\ samplesSinceChange = 0
  /\ voices = << >>
  /\ output = None
  /\ blockPos = None
  /\ blockGains = << >>
  /\ blockRendered = 0
  /\ lastSample = None
  /\ chordRun = 0
  /\ chordBroken = FALSE
  /\ chordFirst = TRUE
  /\ replacedNow = FALSE
  /\ tones = 0
  /\ lastCall = NoCall
  /\ loadCalls = 0
  /\ lastLoad = "none"

\* ------------------------------------------------------- what sounds
\* The three timeline backends: the media element playing, a started
\* buffer-playback instance, an activated synthesizer node.
Backends == {"media", "file", "synth"}
MediaSounding == mExists /\ ~mPaused /\ mStatus = "ready"
FileSounding == bufferSource # None
SynthSounding == (streamNode /\ synthActive) \/ orphanSynth
Sounding(b) ==
  CASE b = "media" -> MediaSounding
    [] b = "file" -> FileSounding
    [] b = "synth" -> SynthSounding

\* The backends the step silences: they produced sound before it and produce
\* none after it.
Silenced == {b \in Backends : Sounding(b) /\ ~Sounding(b)'}

\* ------------------------------------------------------ shared tear-down
\* disconnectBufferSource: the referenced instance, if any, gets onended =
\* null, is stopped and disconnected, and the ref is cleared.  Stopping it
\* makes the platform deliver an `ended` event to it later.
\* disconnectBufferSource without its line 82: the instance keeps its handler.
DetachOmitted == FALSE

\* bufferSourceRef.current.onended = null: the instance keeps no handler.
DetachOnDisconnect == TRUE

StaleAfterDisconnect ==
  staleArmed \/ (bufferSource # None /\ ~DetachOnDisconnect)

\* disconnectStreamNode dropping the ref only: a node that was active goes on
\* rendering into the graph.
OrphanLeftActive == orphanSynth \/ (streamNode /\ synthActive)

\* disconnectStreamNode disconnects the node and posts set-active false to it
\* before dropping the ref: the node dropped is silent.
OrphanAfterDisconnect == orphanSynth

\* mediaElementRef.current?.pause(): what is left of the calls in flight.
CallsAfterMediaPause(s) == IF mExists THEN RejectPlayPromises(s) ELSE s

\* ------------------------------------------------------------ loadSource
\* The state the catch block of loadSource leaves.
CatchState == "error"
\* A catch block without its `throw error`: the promise resolves.
CatchSwallowed == "resolved"

\* How the promise of a loadSource whose body threw settles (throw error).
CatchResult == "rejected"

\* Validation placed after ensureContext(): the context exists afterwards.
CtxEnsuredFirst == TRUE

\* loadUrlSource and loadFileSource validate before they call ensureContext.
CtxAfterInvalid == ctx

\* loadSource with a URL failing validateUrl, or a file whose type does not
\* start with audio/: setErrorMessage(null), setState('loading'), then the
\* validation throws before any await suspends and the catch block runs.
LoadInvalid(kind) ==
  /\ InTask
  /\ kind \in {"url", "file"}
  /\ loadCalls < MaxLoadCalls
  /\ loadCalls' = loadCalls + 1
  /\ errorMessage' = (IF kind = "url" THEN MsgBadUrl ELSE MsgBadType)
  /\ state' = CatchState
  /\ loadResult' = CatchResult
  /\ calls' = Supersede(calls)
  /\ ctx' = CtxAfterInvalid
  /\ UNCHANGED << activeSource, currentTime, duration, now, mediaVars,
                  fileVars, streamVars >>
  /\ lastCall' = Made("load")
  /\ UNCHANGED tones
  /\ stopped' = Silenced
  /\ lastLoad' = kind
  /\ UNCHANGED << seqVars, disposed, synthVars >>

\* loadSource with a descriptor that passes validation, up to its first
\* await (context.resume()).
LoadCall(kind) ==
  /\ InTask
  /\ loadCalls < MaxLoadCalls
  /\ loadCalls' = loadCalls + 1
  /\ kind \in Kinds
  /\ errorMessage' = ""
  /\ state' = "loading"
  /\ ctx' = TRUE
  /\ calls' = Append(Supersede(calls), Call("load", "resume", kind, 0, calls = << >>))
  /\ loadResult' = "none"
  /\ UNCHANGED << activeSource, currentTime, duration, now, mediaVars,
                  fileVars, streamVars >>
  /\ lastCall' = Made("load")
  /\ UNCHANGED tones
  /\ stopped' = Silenced
  /\ lastLoad' = kind
  /\ UNCHANGED << seqVars, disposed, synthVars >>

\* loadUrlSource after the resume: the element is created if missing, gets
\* the new src (the element's load algorithm pauses it, rewinds it and
\* rejects its pending play promises), and the call waits for canplay.
LoadUrlResumed(i) ==
  /\ i \in 1..Len(calls)
  /\ calls[i].op = "load" /\ calls[i].src = "url"
  /\ calls[i].pc = "resume" /\ ResumeIsNext(i)
  /\ mExists' = TRUE
  /\ mStatus' = "loading"
  /\ mPaused' = TRUE
  /\ mTime' = 0
  /\ calls' = RejectPlayPromises(Await(i, "canplay", 0))
  /\ UNCHANGED << reactVars, ctx, now, fileVars, streamVars >>
  /\ loadResult' = "none"
  /\ UNCHANGED << loadCalls, tones >>
  /\ lastCall' = NoCall
  /\ stopped' = Silenced
  /\ UNCHANGED lastLoad
  /\ UNCHANGED << seqVars, disposed, synthVars >>

\* The element fires canplay: every loadUrlSource waiting for it resolves
\* (each has its own listener on the one element) and finishes.
MediaCanPlay ==
  /\ InTask
  /\ mExists /\ mStatus = "loading"
  /\ mStatus' = "ready"
  /\ LET waiting == \E j \in 1..Len(calls) : calls[j].pc = "canplay"
     IN  /\ calls' = SelectSeq(calls, LAMBDA c : c.pc # "canplay")
         /\ IF waiting
            THEN /\ decodedBuffer' = None
                 /\ bufferSource' = None
                 /\ staleArmed' = StaleAfterDisconnect
                 /\ streamNode' = FALSE
                 /\ synthActive' = FALSE
                 /\ orphanSynth' = OrphanAfterDisconnect
                 /\ streamStartedAt' = None
                 /\ streamOffset' = 0
                 /\ bufferOffset' = 0
                 /\ bufferStartedAt' = None
                 /\ duration' = MediaDur
                 /\ currentTime' = 0
                 /\ activeSource' = "url"
                 /\ state' = "ready"
                 /\ loadResult' = "resolved"
                 /\ UNCHANGED << errorMessage, streamModuleLoaded >>
            ELSE /\ loadResult' = "none"
                 /\ UNCHANGED << reactVars, fileVars, streamVars >>
  /\ UNCHANGED << ctx, now, mExists, mPaused, mTime >>
  /\ UNCHANGED << loadCalls, tones >>
  /\ lastCall' = NoCall
  /\ stopped' = Silenced
  /\ UNCHANGED lastLoad
  /\ UNCHANGED << seqVars, disposed, synthVars >>

\* The element fires error while loading its resource: every loadUrlSource
\* waiting for it rejects, and loadSource's catch block runs.  The element's
\* pending play promises are rejected too.
MediaError ==
  /\ InTask
  /\ mExists /\ mStatus = "loading"
  /\ mStatus' = "error"
  /\ calls' = RejectPlayPromises(SelectSeq(calls, LAMBDA c : c.pc # "canplay"))
  /\ IF \E j \in 1..Len(calls) : calls[j].pc = "canplay"
     THEN /\ errorMessage' = MsgMedia
          /\ state' = CatchState
          /\ loadResult' = CatchResult
     ELSE /\ loadResult' = "none"
          /\ UNCHANGED << errorMessage, state >>
  /\ UNCHANGED << activeSource, currentTime, duration, ctx, now, mExists,
                  mPaused, mTime, fileVars, streamVars >>
  /\ UNCHANGED << loadCalls, tones >>
  /\ lastCall' = NoCall
  /\ stopped' = Silenced
  /\ UNCHANGED lastLoad
  /\ UNCHANGED << seqVars, disposed, synthVars >>

\* The element fires error after its resource was ready (the network fails,
\* the data cannot be decoded): it stops playing and rejects its pending play
\* promises, so a play() or seekTo() awaiting one throws.  loadUrlSource
\* removed its error listener when the load settled, and nothing else
\* listens.
MediaFails ==
  /\ InTask
  /\ mExists /\ mStatus = "ready"
  /\ mStatus' = "error"
  /\ calls' = RejectPlayPromises(calls)
  /\ UNCHANGED << reactVars, ctx, now, mExists, mPaused, mTime, fileVars,
                  streamVars >>
  /\ loadResult' = "none"
  /\ UNCHANGED << loadCalls, tones >>
  /\ lastCall' = NoCall
  /\ stopped' = Silenced
  /\ UNCHANGED lastLoad
  /\ UNCHANGED << seqVars, disposed, synthVars >>

\* loadFileSource after the resume: file.arrayBuffer() and decodeAudioData
\* are awaited one after the other with nothing in between.
LoadFileResumed(i) ==
  /\ i \in 1..Len(calls)
  /\ calls[i].op = "load" /\ calls[i].src = "file"
  /\ calls[i].pc = "resume" /\ ResumeIsNext(i)
  /\ calls' = Await(i, "decode", 0)
  /\ UNCHANGED << reactVars, ctx, now, mediaVars, fileVars, streamVars >>
  /\ loadResult' = "none"
  /\ UNCHANGED << loadCalls, tones >>
  /\ lastCall' = NoCall
  /\ stopped' = Silenced
  /\ UNCHANGED lastLoad
  /\ UNCHANGED << seqVars, disposed, synthVars >>

\* decodeAudioData resolved with a buffer lasting d: the rest of
\* loadFileSource.
LoadFileDecoded(i, d) ==
  /\ InTask
  /\ i \in 1..Len(calls)
  /\ d \in 1..MaxFileDur
  /\ calls[i].op = "load" /\ calls[i].pc = "decode"
  /\ decodedBuffer' = Some(d)
  /\ bufferSource' = None
  /\ staleArmed' = StaleAfterDisconnect
  /\ streamNode' = FALSE
  /\ synthActive' = FALSE
  /\ orphanSynth' = OrphanAfterDisconnect
  /\ streamStartedAt' = None
  /\ streamOffset' = 0
  /\ bufferOffset' = 0
  /\ bufferStartedAt' = None
  /\ mPaused' = TRUE
  /\ mTime' = 0
  /\ duration' = d
  /\ currentTime' = 0
  /\ activeSource' = "file"
  /\ state' = "ready"
  /\ loadResult' = "resolved"
  /\ calls' = CallsAfterMediaPause(RemoveAt(calls, i))
  /\ UNCHANGED << errorMessage, ctx, now, mExists, mStatus, streamModuleLoaded >>
  /\ UNCHANGED << loadCalls, tones >>
  /\ lastCall' = NoCall
  /\ stopped' = Silenced
  /\ UNCHANGED lastLoad
  /\ UNCHANGED << seqVars, disposed, synthVars >>

\* decodeAudioData rejected: loadSource's catch block.
LoadFileDecodeFailed(i) ==
  /\ InTask
  /\ i \in 1..Len(calls)
  /\ calls[i].op = "load" /\ calls[i].pc = "decode"
  /\ errorMessage' = MsgDecode
  /\ state' = CatchState
  /\ loadResult' = CatchResult
  /\ calls' = RemoveAt(calls, i)
  /\ UNCHANGED << activeSource, currentTime, duration, ctx, now, mediaVars,
                  fileVars, streamVars >>
  /\ UNCHANGED << loadCalls, tones >>
  /\ lastCall' = NoCall
  /\ stopped' = Silenced
  /\ UNCHANGED lastLoad
  /\ UNCHANGED << seqVars, disposed, synthVars >>

\* The stream branch of loadSource from disconnectBufferSource() to
\* setState('ready').  It does not call resetBufferState.
StreamLoadDone(i) ==
  /\ bufferSource' = None
  /\ staleArmed' = StaleAfterDisconnect
  /\ mPaused' = TRUE
  /\ mTime' = 0
  /\ orphanSynth' = OrphanAfterDisconnect
  /\ streamNode' = TRUE
  /\ synthActive' = FALSE
  /\ streamOffset' = 0
  /\ streamStartedAt' = None
  /\ decodedBuffer' = None
  /\ duration' = 0
  /\ currentTime' = 0
  /\ activeSource' = "stream"
  /\ state' = "ready"
  /\ loadResult' = "resolved"
  /\ calls' = CallsAfterMediaPause(RemoveAt(calls, i))
  /\ UNCHANGED << errorMessage, ctx, now, mExists, mStatus,
                  bufferOffset, bufferStartedAt >>

\* The stream branch after the resume, up to await ensureStreamWorklet():
\* that function returns without awaiting when the module is loaded, and
\* the load goes on in a later job; otherwise it awaits
\* audioWorklet.addModule.
LoadStreamResumed(i) ==
  /\ i \in 1..Len(calls)
  /\ calls[i].op = "load" /\ calls[i].src = "stream"
  /\ calls[i].pc = "resume" /\ ResumeIsNext(i)
  /\ calls' = Await(i, IF streamModuleLoaded THEN "ensured" ELSE "worklet", 0)
  /\ loadResult' = "none"
  /\ UNCHANGED << reactVars, ctx, now, mediaVars, fileVars, streamVars >>
  /\ UNCHANGED << loadCalls, tones >>
  /\ lastCall' = NoCall
  /\ stopped' = Silenced
  /\ UNCHANGED lastLoad
  /\ UNCHANGED << seqVars, disposed, synthVars >>

\* The stream branch after await ensureStreamWorklet(), the module having
\* been loaded before.
LoadStreamEnsured(i) ==
  /\ i \in 1..Len(calls)
  /\ calls[i].op = "load" /\ calls[i].pc = "ensured" /\ MicroIsNext(i)
  /\ StreamLoadDone(i)
  /\ UNCHANGED streamModuleLoaded
  /\ UNCHANGED << loadCalls, tones >>
  /\ lastCall' = NoCall
  /\ stopped' = Silenced
  /\ UNCHANGED lastLoad
  /\ UNCHANGED << seqVars, disposed, synthVars >>

\* addModule resolved.
LoadWorkletLoaded(i) ==
  /\ InTask
  /\ i \in 1..Len(calls)
  /\ calls[i].op = "load" /\ calls[i].pc = "worklet"
  /\ streamModuleLoaded' = TRUE
  /\ StreamLoadDone(i)
  /\ UNCHANGED << loadCalls, tones >>
  /\ lastCall' = NoCall
  /\ stopped' = Silenced
  /\ UNCHANGED lastLoad
  /\ UNCHANGED << seqVars, disposed, synthVars >>

\* addModule rejected: loadSource's catch block.
LoadWorkletFailed(i) ==
  /\ InTask
  /\ i \in 1..Len(calls)
  /\ calls[i].op = "load" /\ calls[i].pc = "worklet"
  /\ errorMessage' = MsgWorklet
  /\ state' = CatchState
  /\ loadResult' = CatchResult
  /\ calls' = RemoveAt(calls, i)
  /\ UNCHANGED << activeSource, currentTime, duration, ctx, now, mediaVars,
                  fileVars, streamVars >>
  /\ UNCHANGED << loadCalls, tones >>
  /\ lastCall' = NoCall
  /\ stopped' = Silenced
  /\ UNCHANGED lastLoad
  /\ UNCHANGED << seqVars, disposed, synthVars >>

\* The instrument branch after the resume.
LoadInstrumentResumed(i) ==
  /\ i \in 1..Len(calls)
  /\ calls[i].op = "load" /\ calls[i].src = "instrument"
  /\ calls[i].pc = "resume" /\ ResumeIsNext(i)
  /\ bufferSource' = None
  /\ staleArmed' = StaleAfterDisconnect
  /\ streamNode' = FALSE
  /\ synthActive' = FALSE
  /\ orphanSynth' = OrphanAfterDisconnect
  /\ mPaused' = TRUE
  /\ mTime' = 0
  /\ decodedBuffer' = None
  /\ bufferOffset' = 0
  /\ bufferStartedAt' = None
  /\ streamOffset' = 0
  /\ streamStartedAt' = None
  /\ duration' = 0
  /\ currentTime' = 0
  /\ activeSource' = "instrument"
  /\ state' = "ready"
  /\ loadResult' = "resolved"
  /\ calls' = CallsAfterMediaPause(RemoveAt(calls, i))
  /\ UNCHANGED << errorMessage, ctx, now, mExists, mStatus, streamModuleLoaded >>
  /\ UNCHANGED << loadCalls, tones >>
  /\ lastCall' = NoCall
  /\ stopped' = Silenced
  /\ UNCHANGED lastLoad
  /\ UNCHANGED << seqVars, disposed, synthVars >>

\* ------------------------------------------------------------------ play
\* Math.min(duration, Math.max(0, offsetSeconds))
ClampOffset(d, t) == Min(d, Max(0, t))

\* A start instant that forgets the offset.
StartInstantNow(clamped) == now

\* bufferStartedAtRef.current = context.currentTime - clampedOffset
StartInstant(clamped) == now - clamped

\* startFilePlayback after its resume: nothing without a decoded buffer;
\* otherwise the referenced instance is disconnected and a new one is
\* created, given its onended handler and started at the clamped offset.
StartFilePlayback(offset) ==
  IF decodedBuffer = None
  THEN UNCHANGED fileVars
  ELSE LET clamped == ClampOffset(Val(decodedBuffer), offset)
       IN  /\ staleArmed' = StaleAfterDisconnect
           /\ bufferStartedAt' = Some(StartInstant(clamped))
           /\ bufferOffset' = clamped
           /\ bufferSource' = Some(now - clamped)
           /\ UNCHANGED decodedBuffer

\* play() from a closure holding state st and activeSource src, up to its
\* await of context.resume(), with cs the calls in flight: it returns at once
\* when st is loading.
CallsAfterPlay(st, src, cs) ==
  IF st = "loading"
  THEN Overlap(cs)
  ELSE Append(Overlap(cs), Call("play", "resume", src, 0, TRUE))

\* play() called from the closure of the current render.
PlayCall ==
  /\ InTask
  /\ state = "loading" \/ InFlight({"play", "seek"}) < MaxTransport
  /\ ctx' = (ctx \/ state # "loading")
  /\ calls' = CallsAfterPlay(state, activeSource, calls)
  /\ UNCHANGED << reactVars, now, mediaVars, fileVars, streamVars >>
  /\ loadResult' = "none"
  /\ UNCHANGED << loadCalls, tones >>
  /\ lastCall' = Made("play")
  /\ stopped' = Silenced
  /\ UNCHANGED lastLoad
  /\ UNCHANGED << seqVars, disposed, synthVars >>

\* One task calls loadSource(descriptor) and then play(): play is the callback
\* of the render before loadSource's setState('loading'), so the state and
\* activeSource it holds are those of before the load.
LoadThenPlay(kind) ==
  /\ InTask
  /\ loadCalls < MaxLoadCalls
  /\ loadCalls' = loadCalls + 1
  /\ kind \in Kinds
  /\ state = "loading" \/ InFlight({"play", "seek"}) < MaxTransport
  /\ errorMessage' = ""
  /\ state' = "loading"
  /\ ctx' = TRUE
  /\ calls' = CallsAfterPlay(state, activeSource,
                 Append(Supersede(calls), Call("load", "resume", kind, 0, FALSE)))
  /\ loadResult' = "none"
  /\ UNCHANGED << activeSource, currentTime, duration, now, mediaVars,
                  fileVars, streamVars >>
  /\ lastCall' = Made("play")
  /\ UNCHANGED tones
  /\ stopped' = Silenced
  /\ lastLoad' = kind
  /\ UNCHANGED << seqVars, disposed, synthVars >>

\* play() after the resume, by the captured activeSource.
PlayResumed(i) ==
  /\ i \in 1..Len(calls)
  /\ calls[i].op = "play" /\ calls[i].pc = "resume" /\ ResumeIsNext(i)
  /\ LET src == calls[i].src
     IN  CASE src = "url" /\ mExists /\ mStatus \in {"loading", "ready"} ->
                \* audio.play(): the element is no longer paused; the promise
                \* resolves once it is playing
                /\ mPaused' = FALSE
                /\ mTime' = (IF mStatus = "ready" /\ mTime = MediaDur THEN 0 ELSE mTime)
                /\ calls' = Await(i, "mplay", 0)
                /\ UNCHANGED << reactVars, mExists, mStatus, fileVars, streamVars >>
           [] src = "url" /\ mExists /\ mStatus \notin {"loading", "ready"} ->
                \* audio.play() rejects (no supported source): play() throws
                /\ calls' = RemoveAt(calls, i)
                /\ UNCHANGED << reactVars, mediaVars, fileVars, streamVars >>
           [] src = "file" /\ decodedBuffer # None ->
                \* startFilePlayback(bufferOffsetRef.current), up to its resume
                /\ calls' = Await(i, "resume2", bufferOffset)
                /\ UNCHANGED << reactVars, mediaVars, fileVars, streamVars >>
           [] src = "stream" /\ streamNode /\ ctx ->
                /\ synthActive' = TRUE
                /\ streamStartedAt' = Some(now)
                /\ state' = "playing"
                /\ calls' = RemoveAt(calls, i)
                /\ UNCHANGED << activeSource, errorMessage, currentTime, duration,
                                mediaVars, fileVars, streamNode, orphanSynth,
                                streamModuleLoaded, streamOffset >>
           [] src = "instrument" ->
                /\ state' = "ready"
                /\ calls' = RemoveAt(calls, i)
                /\ UNCHANGED << activeSource, errorMessage, currentTime, duration,
                                mediaVars, fileVars, streamVars >>
           [] OTHER ->
                /\ calls' = RemoveAt(calls, i)
                /\ UNCHANGED << reactVars, mediaVars, fileVars, streamVars >>
  /\ UNCHANGED << ctx, now >>
  /\ loadResult' = "none"
  /\ UNCHANGED << loadCalls, tones >>
  /\ lastCall' = NoCall
  /\ stopped' = Silenced
  /\ UNCHANGED lastLoad
  /\ UNCHANGED << seqVars, disposed, synthVars >>

\* The promise of audio.play() resolves: setState('playing').
PlayMediaStarted(i) ==
  /\ InTask
  /\ i \in 1..Len(calls)
  /\ calls[i].op = "play" /\ calls[i].pc = "mplay"
  /\ mStatus = "ready" /\ ~mPaused
  /\ state' = "playing"
  /\ calls' = RemoveAt(calls, i)
  /\ UNCHANGED << activeSource, errorMessage, currentTime, duration, ctx, now,
                  mediaVars, fileVars, streamVars >>
  /\ loadResult' = "none"
  /\ UNCHANGED << loadCalls, tones >>
  /\ lastCall' = NoCall
  /\ stopped' = Silenced
  /\ UNCHANGED lastLoad
  /\ UNCHANGED << seqVars, disposed, synthVars >>

\* startFilePlayback called by play(), after its resume: the instance is
\* started (if there is a buffer) and the function returns; play(), which
\* awaits it, goes on in a later job.
PlayFileStart(i) ==
  /\ i \in 1..Len(calls)
  /\ calls[i].op = "play" /\ calls[i].pc = "resume2" /\ ResumeIsNext(i)
  /\ StartFilePlayback(calls[i].arg)
  /\ calls' = Await(i, "started", calls[i].arg)
  /\ UNCHANGED << reactVars, ctx, now, mediaVars, streamVars >>
  /\ loadResult' = "none"
  /\ UNCHANGED << loadCalls, tones >>
  /\ lastCall' = NoCall
  /\ stopped' = Silenced
  /\ UNCHANGED lastLoad
  /\ UNCHANGED << seqVars, disposed, synthVars >>

\* play() of a file after await startFilePlayback(...): setState('playing').
PlayFileStarted(i) ==
  /\ i \in 1..Len(calls)
  /\ calls[i].op = "play" /\ calls[i].pc = "started" /\ MicroIsNext(i)
  /\ state' = "playing"
  /\ calls' = RemoveAt(calls, i)
  /\ UNCHANGED << activeSource, errorMessage, currentTime, duration, ctx, now,
                  mediaVars, fileVars, streamVars >>
  /\ loadResult' = "none"
  /\ UNCHANGED << loadCalls, tones >>
  /\ lastCall' = NoCall
  /\ stopped' = Silenced
  /\ UNCHANGED lastLoad
  /\ UNCHANGED << seqVars, disposed, synthVars >>

\* ------------------------------------------------- triggerInstrumentNote
\* The key table KALIMBA_KEYS has 17 entries.
NumKeys == 17

\* A lookup accepting the index one past the table.
KeyExistsPastEnd(index) == index \in 0..NumKeys

\* getKalimbaFrequency(index) is a frequency: KALIMBA_KEYS has the index.
KeyExists(index) == index \in 0..(NumKeys - 1)

\* The engine's frequency table; frequencies in hundredths of a hertz.
KALIMBA_KEYS ==
  << [label |-> "D6", freq |-> 117466], [label |-> "B5", freq |-> 98777],
     [label |-> "G5", freq |-> 78399],  [label |-> "E5", freq |-> 65925],
     [label |-> "C5", freq |-> 52325],  [label |-> "A4", freq |-> 44000],
     [label |-> "F4", freq |-> 34923],  [label |-> "D4", freq |-> 29366],
     [label |-> "C4", freq |-> 26163],  [label |-> "E4", freq |-> 32963],
     [label |-> "G4", freq |-> 39200],  [label |-> "B4", freq |-> 49388],
     [label |-> "D5", freq |-> 58733],  [label |-> "F5", freq |-> 69846],
     [label |-> "A5", freq |-> 88000],  [label |-> "C6", freq |-> 104650],
     [label |-> "E6", freq |-> 131851] >>

\* KALIMBA_KEYS[index]?.freq ?? null
getKalimbaFrequency(index) ==
  IF index \in 0..(Len(KALIMBA_KEYS) - 1)
  THEN Some(KALIMBA_KEYS[index + 1].freq)
  ELSE None

\* triggerInstrumentNote(index) up to its await of context.resume(): it
\* returns at once unless the captured activeSource is instrument and the
\* table has the index.
TriggerCall(index) ==
  /\ InTask
  /\ IF activeSource = "instrument" /\ KeyExists(index)
     THEN /\ tones + InFlight({"note"}) < MaxTones
          /\ ctx' = TRUE
          /\ calls' = Append(Overlap(calls), Call("note", "resume", "instrument", index, TRUE))
     ELSE /\ calls' = Overlap(calls)
          /\ UNCHANGED ctx
  /\ UNCHANGED << reactVars, now, mediaVars, fileVars, streamVars, tones, loadCalls >>
  /\ loadResult' = "none"
  /\ UNCHANGED lastCall
  /\ stopped' = Silenced
  /\ UNCHANGED lastLoad
  /\ UNCHANGED << seqVars, disposed, synthVars >>

\* triggerInstrumentNote after the resume: the oscillator and its gain
\* envelope are created and started.
TriggerResumed(i) ==
  /\ i \in 1..Len(calls)
  /\ calls[i].op = "note" /\ calls[i].pc = "resume" /\ ResumeIsNext(i)
  /\ tones' = tones + 1
  /\ calls' = RemoveAt(calls, i)
  /\ UNCHANGED << reactVars, ctx, now, mediaVars, fileVars, streamVars, loadCalls >>
  /\ loadResult' = "none"
  /\ lastCall' = NoCall
  /\ stopped' = Silenced
  /\ UNCHANGED lastLoad
  /\ UNCHANGED << seqVars, disposed, synthVars >>

\* ---------------------------------------------------------------- seekTo
\* seekTo clamping to the duration only, without safeTarget.
SeekClampUpperOnly(d, t) == Min(d, t)

\* seekTo's clamped: Math.min(duration, safeTarget), safeTarget being
\* Math.max(0, targetSeconds).
SeekClamp(d, t) == Min(d, Max(0, t))

\* seekTo going by the resources at hand rather than by the active kind.
SeekKindByResource == IF mExists THEN "url" ELSE activeSource

\* The kind seekTo goes by: the captured activeSource; it returns at once for
\* stream and instrument.
SeekKind == activeSource

\* A seekTo that restarts the instance of a file whatever the state.
SeekRestartsAlways == TRUE

\* seekTo calls startFilePlayback for a file: if (state === 'playing').
SeekRestarts == state = "playing"

\* seekTo(t) up to its first await, by the captured activeSource and state.
SeekCall(t) ==
  /\ InTask
  /\ CASE SeekKind = "url" /\ mExists /\ mStatus = "ready" ->
            \* audio.duration is finite once the resource is ready
            LET clamped == SeekClamp(MediaDur, t)
                replay == state = "playing"
            IN  /\ mTime' = (IF replay /\ clamped = MediaDur THEN 0 ELSE clamped)
                /\ mPaused' = (IF replay THEN FALSE ELSE mPaused)
                /\ currentTime' = clamped
                /\ calls' = Overlap(calls)
                /\ UNCHANGED << state, activeSource, errorMessage, duration, ctx,
                                mExists, mStatus, fileVars >>
       [] SeekKind = "file" /\ decodedBuffer # None ->
            LET clamped == SeekClamp(Val(decodedBuffer), t)
            IN  /\ bufferOffset' = clamped
                /\ currentTime' = clamped
                /\ IF SeekRestarts
                   THEN \* startFilePlayback(clamped), up to its resume
                        /\ InFlight({"play", "seek"}) < MaxTransport
                        /\ ctx' = TRUE
                        /\ calls' = Append(Overlap(calls),
                                           Call("seek", "resume2", "file", clamped, TRUE))
                        /\ UNCHANGED bufferStartedAt
                   ELSE /\ bufferStartedAt' =
                             (IF ctx THEN Some(now - clamped) ELSE bufferStartedAt)
                        /\ calls' = Overlap(calls)
                        /\ UNCHANGED ctx
                /\ UNCHANGED << state, activeSource, errorMessage, duration,
                                mediaVars, bufferSource, decodedBuffer, staleArmed >>
       [] OTHER ->
            /\ calls' = Overlap(calls)
            /\ UNCHANGED << reactVars, ctx, mediaVars, fileVars >>
  /\ UNCHANGED << now, streamVars >>
  /\ loadResult' = "none"
  /\ UNCHANGED << loadCalls, tones >>
  /\ lastCall' = Made("seek")
  /\ stopped' = Silenced
  /\ UNCHANGED lastLoad
  /\ UNCHANGED << seqVars, disposed, synthVars >>

\* seekTo of a playing file after startFilePlayback's resume.
SeekFileRestart(i) ==
  /\ i \in 1..Len(calls)
  /\ calls[i].op = "seek" /\ calls[i].pc = "resume2" /\ ResumeIsNext(i)
  /\ StartFilePlayback(calls[i].arg)
  /\ calls' = RemoveAt(calls, i)
  /\ UNCHANGED << reactVars, ctx, now, mediaVars, streamVars >>
  /\ loadResult' = "none"
  /\ UNCHANGED << loadCalls, tones >>
  /\ lastCall' = NoCall
  /\ stopped' = Silenced
  /\ UNCHANGED lastLoad
  /\ UNCHANGED << seqVars, disposed, synthVars >>

\* ----------------------------------------------------------------- pause
\* source.onended = null in pause(), before source.stop().
DetachOnPause == TRUE

StaleAfterPause == staleArmed \/ ~DetachOnPause

\* pause adding the time since a start instant of 0 when none is recorded.
StreamOffsetUnguarded ==
  streamOffset + (now - (IF streamStartedAt # None THEN Val(streamStartedAt) ELSE 0))

\* pause on a stream: the time since the start instant is added to the
\* offset only if a start instant is recorded.
StreamOffsetAtPause ==
  IF streamStartedAt # None
  THEN streamOffset + (now - Val(streamStartedAt))
  ELSE streamOffset

Pause ==
  /\ InTask
  /\ CASE activeSource = "url" /\ mExists ->
            /\ mPaused' = TRUE
            /\ state' = "paused"
            /\ calls' = RejectPlayPromises(Supersede(calls))
            /\ UNCHANGED << mExists, mStatus, mTime, fileVars, streamVars >>
       [] activeSource = "file" /\ bufferSource # None /\ ctx ->
            /\ staleArmed' = StaleAfterPause
            /\ bufferSource' = None
            /\ bufferOffset' =
                 (IF bufferStartedAt # None /\ decodedBuffer # None
                  THEN Min(Val(decodedBuffer), Max(0, now - Val(bufferStartedAt)))
                  ELSE bufferOffset)
            /\ bufferStartedAt' = None
            /\ state' = "paused"
            /\ calls' = Supersede(calls)
            /\ UNCHANGED << mediaVars, decodedBuffer, streamVars >>
       [] activeSource = "stream" /\ streamNode /\ ctx ->
            /\ synthActive' = FALSE
            /\ streamOffset' = StreamOffsetAtPause
            /\ streamStartedAt' = None
            /\ state' = "paused"
            /\ calls' = Supersede(calls)
            /\ UNCHANGED << mediaVars, fileVars, streamNode, orphanSynth,
                            streamModuleLoaded >>
       [] activeSource = "instrument" ->
            /\ state' = "ready"
            /\ calls' = Supersede(calls)
            /\ UNCHANGED << mediaVars, fileVars, streamVars >>
       [] OTHER ->
            /\ calls' = Supersede(calls)
            /\ UNCHANGED << state, mediaVars, fileVars, streamVars >>
  /\ UNCHANGED << activeSource, errorMessage, currentTime, duration, ctx, now >>
  /\ loadResult' = "none"
  /\ UNCHANGED << loadCalls, tones >>
  /\ lastCall' = Made("pause")
  /\ stopped' = Silenced
  /\ UNCHANGED lastLoad
  /\ UNCHANGED << seqVars, disposed, synthVars >>

\* ------------------------------------------------------------------ stop
Stop ==
  /\ InTask
  /\ CASE activeSource = "url" /\ mExists ->
            /\ mPaused' = TRUE
            /\ mTime' = 0
            /\ currentTime' = 0
            /\ state' = "ready"
            /\ calls' = RejectPlayPromises(Supersede(calls))
            /\ UNCHANGED << mExists, mStatus, fileVars, streamVars >>
       [] activeSource = "file" ->
            /\ bufferSource' = None
            /\ staleArmed' = StaleAfterDisconnect
            /\ bufferOffset' = 0
            /\ bufferStartedAt' = None
            /\ currentTime' = 0
            /\ state' = "ready"
            /\ calls' = Supersede(calls)
            /\ UNCHANGED << mediaVars, decodedBuffer, streamVars >>
       [] activeSource = "stream" /\ streamNode ->
            /\ synthActive' = FALSE
            /\ streamOffset' = 0
            /\ streamStartedAt' = None
            /\ currentTime' = 0
            /\ state' = "ready"
            /\ calls' = Supersede(calls)
            /\ UNCHANGED << mediaVars, fileVars, streamNode, orphanSynth,
                            streamModuleLoaded >>
       [] activeSource = "instrument" ->
            /\ currentTime' = 0
            /\ state' = "ready"
            /\ calls' = Supersede(calls)
            /\ UNCHANGED << mediaVars, fileVars, streamVars >>
       [] OTHER ->
            /\ calls' = Supersede(calls)
            /\ UNCHANGED << state, currentTime, mediaVars, fileVars, streamVars >>
  /\ UNCHANGED << activeSource, errorMessage, duration, ctx, now >>
  /\ loadResult' = "none"
  /\ UNCHANGED << loadCalls, tones >>
  /\ lastCall' = Made("stop")
  /\ stopped' = Silenced
  /\ UNCHANGED lastLoad
  /\ UNCHANGED << seqVars, disposed, synthVars >>

\* --------------------------------------------------------------- sampler
\* What the interval callback passes to setCurrentTime when the engine clock
\* reads n and the element's clock reads mt; the value currentTime has when
\* no branch of the callback applies.
SampledAt(n, mt) ==
  CASE activeSource = "url" /\ mExists -> mt
    [] activeSource = "file" /\ decodedBuffer # None /\ ctx ->
         IF state = "playing" /\ bufferStartedAt # None
         THEN Min(Val(decodedBuffer), Max(0, n - Val(bufferStartedAt)))
         ELSE bufferOffset
    [] activeSource = "stream" /\ ctx ->
         IF state = "playing" /\ streamStartedAt # None
         THEN streamOffset + (n - Val(streamStartedAt))
         ELSE streamOffset
    [] activeSource = "instrument" -> 0
    [] OTHER -> currentTime

\* The elapsed time the sampler computes in the current state.
Sampled == SampledAt(now, mTime)

\* What the callback passes to setDuration.
SampledDuration ==
  CASE activeSource = "url" /\ mExists ->
         (IF mStatus = "ready" THEN MediaDur ELSE 0)
    [] activeSource = "file" /\ decodedBuffer # None /\ ctx -> Val(decodedBuffer)
    [] activeSource = "stream" /\ ctx -> 0
    [] activeSource = "instrument" -> 0
    [] OTHER -> duration

\* ------------------------------------------------------- platform events
\* One sampling period passes: the engine clock advances by one unit, a
\* playing element advances with it, and the interval callback runs.
Tick ==
  /\ InTask
  /\ ctx /\ now < MaxClock
  /\ now' = now + 1
  /\ LET mt == IF mExists /\ ~mPaused /\ mStatus = "ready" /\ mTime < MediaDur
               THEN mTime + 1 ELSE mTime
     IN  /\ mTime' = mt
         /\ currentTime' = SampledAt(now + 1, mt)
  /\ duration' = SampledDuration
  /\ UNCHANGED << state, activeSource, errorMessage, ctx, mExists, mStatus,
                  mPaused, fileVars, streamVars, calls >>
  /\ loadResult' = "none"
  /\ UNCHANGED << loadCalls, tones >>
  /\ UNCHANGED lastCall
  /\ stopped' = Silenced
  /\ UNCHANGED lastLoad
  /\ UNCHANGED << seqVars, disposed, synthVars >>

\* The element reaches the end of its resource: it pauses itself and fires
\* ended (handleMediaElementEnded).
MediaEnded ==
  /\ InTask
  /\ mExists /\ ~mPaused /\ mStatus = "ready" /\ mTime = MediaDur
  /\ mPaused' = TRUE
  /\ state' = "ready"
  /\ currentTime' = 0
  /\ calls' = RejectPlayPromises(calls)
  /\ UNCHANGED << activeSource, errorMessage, duration, ctx, now, mExists,
                  mStatus, mTime, fileVars, streamVars >>
  /\ loadResult' = "none"
  /\ UNCHANGED << loadCalls, tones >>
  /\ lastCall' = NoCall
  /\ stopped' = Silenced
  /\ UNCHANGED lastLoad
  /\ UNCHANGED << seqVars, disposed, synthVars >>

\* The onended handler startFilePlayback attaches to an instance.
EndedOffsetKept == bufferOffset

\* The ended handler rewinds the logical offset.
EndedOffset == 0

OnEnded ==
  /\ bufferSource' = None
  /\ bufferOffset' = EndedOffset
  /\ bufferStartedAt' = None
  /\ state' = (IF state = "playing" THEN "ready" ELSE state)
  /\ UNCHANGED decodedBuffer

\* An `ended` event is delivered: to the referenced instance once it has
\* played its buffer to the end, or to an instance stopped earlier that still
\* has its handler.  (Delivered to an instance without handler, it runs no
\* code.)  The handler's disconnectBufferSource works on whatever instance
\* the ref holds by then.
BufferEnded ==
  /\ InTask
  /\ \/ /\ bufferSource # None /\ decodedBuffer # None
        /\ now - Val(bufferSource) >= Val(decodedBuffer)
        /\ OnEnded
        /\ UNCHANGED staleArmed
     \/ /\ staleArmed
        /\ staleArmed' = (bufferSource # None /\ ~DetachOnDisconnect)
        /\ OnEnded
  /\ UNCHANGED << activeSource, errorMessage, currentTime, duration, ctx, now,
                  mediaVars, streamVars, calls >>
  /\ loadResult' = "none"
  /\ UNCHANGED << loadCalls, tones >>
  /\ lastCall' = NoCall
  /\ stopped' = Silenced
  /\ UNCHANGED lastLoad
  /\ UNCHANGED << seqVars, disposed, synthVars >>

\* ------------------------------------------------------- score sequencer
\* The note names of the keyboard layout, position 0 first.
KALIMBA_LAYOUT_ASCENDING ==
  << "C4", "D4", "E4", "F4", "G4", "A4", "B4", "C5", "D5",
     "E5", "F5", "G5", "A5", "B5", "C6", "D6", "E6" >>

\* The note names of the keyboard layout, by position.
KALIMBA_LAYOUT ==
  << "D6", "B5", "G5", "E5", "C5", "A4", "F4", "D4", "C4",
     "E4", "G4", "B4", "D5", "F5", "A5", "C6", "E6" >>

\* A lookup that resolves every code, the rest included, to position 0.
FindNoteIndexAlways(code) == Some(0)

\* findNoteIndex: null for the rest, else the first position of the layout
\* whose note is the code, null when there is none.
FindNoteIndex(code) ==
  IF code = "-"
  THEN None
  ELSE LET hits == {k \in 1..Len(KALIMBA_LAYOUT) : KALIMBA_LAYOUT[k] = code}
       IN  IF hits = {}
           THEN None
           ELSE Some((CHOOSE k \in hits : \A h \in hits : k <= h) - 1)

\* What parseInt makes of a text that is no number; a number n is Some(n).
NaN == None

\* parseInt(text, 10) on the duration texts of the scores explored.
ParseInt(text) ==
  CASE text = "0" -> Some(0)
    [] text = "1" -> Some(1)
    [] text = "2" -> Some(2)
    [] text = "16" -> Some(16)
    [] OTHER -> NaN

\* A timer that is due at once whatever the duration.
TimerDelayNone(durationUnits) == 0

\* The delay setTimeout applies for duration * BASE_UNIT_MS, in base units:
\* a delay that is no number, or a negative one, is 0.
TimerDelay(durationUnits) ==
  IF durationUnits = NaN THEN 0 ELSE Max(0, Val(durationUnits))

\* A playNext that leaves isPlaying set at the end of the score.
IsPlayingLeftAtEnd == TRUE

\* setIsPlaying(false) at the end of the score.
IsPlayingAtEnd == FALSE

\* playNext(index) on the score sc at the instant seqNow, when the timeouts
\* pending are timers.
PlayNext(sc, index, timers, log) ==
  IF index >= Len(sc)
  THEN /\ seqIsPlaying' = IsPlayingAtEnd
       /\ seqCurrentIndex' = None
       /\ highlight' = None
       /\ seqDoneAt' = Some(seqNow)
       /\ seqTimers' = timers
       /\ seqLog' = log
  ELSE LET note == sc[index + 1]
           noteIndex == FindNoteIndex(note.code)
       IN  /\ seqCurrentIndex' = Some(index)
           /\ highlight' = noteIndex
           /\ seqLog' = Append(log, [entry |-> index, note |-> noteIndex,
                                     at |-> seqNow])
           /\ seqTimers' = Append(timers,
                  [next |-> index + 1,
                   due |-> seqNow + TimerDelay(ParseInt(note.duration))])

\* A stop() that leaves the timeouts pending.
TimersKeptAtStop(timers) == timers

\* stop() calls clearTimeout on every timeout of the list and empties the
\* list: the timeouts left pending.
TimersAfterStop(timers) == << >>

\* play(score): stop(), then the first entry at once; an empty score only
\* stops.
SeqPlay(sc) ==
  /\ ~disposed
  /\ seqScore' = sc
  /\ IF Len(sc) = 0
     THEN /\ seqTimers' = TimersAfterStop(seqTimers)
          /\ seqIsPlaying' = FALSE
          /\ seqCurrentIndex' = None
          /\ highlight' = None
          /\ seqLog' = << >>
          /\ seqDoneAt' = None
     ELSE /\ seqIsPlaying' = TRUE
          /\ seqDoneAt' = None
          /\ PlayNext(sc, 0, TimersAfterStop(seqTimers), << >>)
  /\ seqReplaced' = Len(seqTimers)
  /\ seqCaptured' = activeSource
  /\ UNCHANGED << seqNow, disposed, engineVars, synthVars >>

\* stop(): every timeout cleared, nothing playing, nothing highlighted.
SeqStop ==
  /\ ~disposed
  /\ seqTimers' = TimersAfterStop(seqTimers)
  /\ seqIsPlaying' = FALSE
  /\ seqCurrentIndex' = None
  /\ highlight' = None
  /\ UNCHANGED << seqScore, seqLog, seqDoneAt, seqReplaced, seqCaptured, seqNow,
                  disposed, engineVars, synthVars >>

\* A pending timeout is due: playNext of the entry it was set for.  Nothing
\* in the hook clears a timeout when the component is unmounted.
SeqTimerFires(k) ==
  /\ k \in 1..Len(seqTimers)
  /\ seqTimers[k].due <= seqNow
  /\ IF seqTimers[k].next >= Len(seqScore)
     THEN PlayNext(seqScore, seqTimers[k].next, RemoveAt(seqTimers, k), seqLog)
     ELSE /\ PlayNext(seqScore, seqTimers[k].next, RemoveAt(seqTimers, k), seqLog)
          /\ UNCHANGED << seqIsPlaying, seqDoneAt >>
  /\ UNCHANGED << seqScore, seqReplaced, seqCaptured, seqNow, disposed, engineVars,
                  synthVars >>

\* One base unit of time passes, up to the instant last; a timeout that is
\* due fires first.
AdvanceUpTo(last) ==
  /\ seqNow < last
  /\ \A k \in 1..Len(seqTimers) : seqTimers[k].due > seqNow
  /\ seqNow' = seqNow + 1
  /\ UNCHANGED << seqScore, seqIsPlaying, seqCurrentIndex, highlight, seqTimers,
                  seqLog, seqDoneAt, seqReplaced, seqCaptured, disposed, engineVars,
                  synthVars >>

SeqAdvance == AdvanceUpTo(MaxSeqClock)

\* The application component is unmounted: the engine's teardown effect runs
\* (the polling effect clears its interval); the Sequencer hook has no
\* cleanup.
Dispose ==
  /\ InTask
  /\ ~disposed
  /\ disposed' = TRUE
  /\ bufferSource' = None
  /\ staleArmed' = StaleAfterDisconnect
  /\ streamNode' = FALSE
  /\ synthActive' = FALSE
  /\ orphanSynth' = OrphanAfterDisconnect
  /\ streamStartedAt' = None
  /\ streamOffset' = 0
  /\ mPaused' = (mExists \/ mPaused)
  /\ calls' = CallsAfterMediaPause(calls)
  /\ UNCHANGED << reactVars, ctx, now, mExists, mStatus, mTime, decodedBuffer,
                  bufferOffset, bufferStartedAt, streamModuleLoaded, tones,
                  loadCalls, lastCall, lastLoad >>
  /\ loadResult' = "none"
  /\ stopped' = Silenced
  /\ UNCHANGED << seqVars, synthVars >>

\* The codes of score entries: a note of the layout, the rest, a code the
\* layout does not have.
Codes == {"C4", "-", "H9"}
\* The duration texts of score entries: numbers of base units, and a text
\* that is no number.
DurationTexts == {"1", "2", "x"}
ScoreNotes == [code : Codes, duration : DurationTexts]
Scores == UNION {[1..n -> ScoreNotes] : n \in 0..MaxScoreLen}

SeqNext ==
  \/ \E sc \in Scores : SeqPlay(sc)
  \/ SeqStop
  \/ \E k \in 1..MaxScoreLen : SeqTimerFires(k)
  \/ SeqAdvance
  \/ Dispose

SeqSpec == Init /\ [][SeqNext]_vars

\* The time the schedule of the score sc takes from the play() call to the
\* completion, in base units.
RECURSIVE ScheduleLength(_)
ScheduleLength(sc) ==
  IF Len(sc) = 0
  THEN 0
  ELSE TimerDelay(ParseInt(Head(sc).duration)) + ScheduleLength(Tail(sc))

\* play(score) while no sequence is playing, early enough for the schedule to
\* end within the clock.
UninterruptedPlay(sc) ==
  /\ ~seqIsPlaying
  /\ seqNow + ScheduleLength(sc) <= MaxSeqClock
  /\ SeqPlay(sc)

\* stop() while no sequence is playing.
IdleStop == ~seqIsPlaying /\ SeqStop

\* The Sequencer when no sequence is interrupted by stop() or by another
\* play().
UninterruptedNext ==
  \/ \E sc \in Scores : UninterruptedPlay(sc)
  \/ IdleStop
  \/ \E k \in 1..MaxScoreLen : SeqTimerFires(k)
  \/ SeqAdvance
  \/ Dispose

\* The event loop runs a timeout that is due, and time passes.
UninterruptedSpec ==
  /\ Init
  /\ [][UninterruptedNext]_vars
  /\ WF_vars(\E k \in 1..MaxScoreLen : SeqTimerFires(k))
  /\ WF_vars(SeqAdvance)

\* BASE_UNIT_MS = (60 / 120) * 1000 / 16, in microseconds: the duration of one
\* base unit, the step of seqNow.
BASE_UNIT_US == (((60 * 1000 * 1000) \div 120) \div 16)

\* The score of the Sequencer scenario.
ScenarioScore ==
  << [code |-> "C4", duration |-> "16"],
     [code |-> "-", duration |-> "16"],
     [code |-> "E4", duration |-> "16"] >>

ScenarioAdvance == AdvanceUpTo(MaxScenarioClock)

\* The Sequencer is given the scenario score only.
ScenarioNext ==
  \/ SeqPlay(ScenarioScore)
  \/ SeqStop
  \/ \E k \in 1..MaxScoreLen : SeqTimerFires(k)
  \/ ScenarioAdvance
  \/ Dispose

ScenarioSpec == Init /\ [][ScenarioNext]_vars

\* ------------------------------------------------------ chord synthesizer
\* Frequencies are counted in 1/32 of a cycle per second, which keeps every
\* frequency below the sample rate as the audible ones are below the rates of
\* an audio context.
FreqUnits == 32

\* Phases are counted in the part of a cycle a voice of one frequency unit
\* advances in one sample, so that every phase increment is a whole number:
\* TWO_PI is one full cycle.
TWO_PI == FreqUnits * sampleRate

\* Math.sin of a phase, in thousandths, tabulated at every 64th of a
\* cycle: every phase reached at the sample rates 1 and 2.
SinScale == 1000
SinSteps == 64
SinTable ==
  << 0, 98, 195, 290, 383, 471, 556, 634,
     707, 773, 831, 882, 924, 957, 981, 995,
     1000, 995, 981, 957, 924, 882, 831, 773,
     707, 634, 556, 471, 383, 290, 195, 98,
     0, 0 - 98, 0 - 195, 0 - 290, 0 - 383, 0 - 471, 0 - 556, 0 - 634,
     0 - 707, 0 - 773, 0 - 831, 0 - 882, 0 - 924, 0 - 957, 0 - 981, 0 - 995,
     0 - 1000, 0 - 995, 0 - 981, 0 - 957, 0 - 924, 0 - 882, 0 - 831, 0 - 773,
     0 - 707, 0 - 634, 0 - 556, 0 - 471, 0 - 383, 0 - 290, 0 - 195, 0 - 98 >>
Sin(phase) == SinTable[(phase * SinSteps) \div TWO_PI + 1]

\* A sample is the fraction num / den.
Zero == [num |-> 0, den |-> 1]
\* Gains are counted in halves: 0, 1/2, 1 (minValue 0, maxValue 1).
GainDen == 2
Gains == 0..GainDen
Times(sample, gain) == [num |-> sample.num * gain, den |-> sample.den * GainDen]
SameValue(a, b) == a.num * b.den = b.num * a.den
WithinUnit(a) == a.num <= a.den /\ (0 - a.num) <= a.den

\* this.chordDurationSamples
chordDurationSamples == sampleRate * 4

\* Two root notes stand for the seven.
BASE_NOTES == << 1, 2 >>
TRIADS == << << 0, 4, 7 >>, << 0, 3, 7 >>, << 0, 4, 9 >> >>

\* 2 ** (interval / 12) for the intervals of the triads, in quarters.
IntervalRatio(interval) ==
  CASE interval = 0 -> 4
    [] interval = 3 -> 5
    [] interval = 4 -> 5
    [] interval = 7 -> 6
    [] OTHER -> 7

\* The values the three draws of Math.random() * TWO_PI of a createChord
\* take in the runs explored.
Eighths(k) == (k * TWO_PI) \div 8
PhaseDraws ==
  {<< Eighths(3), Eighths(3), Eighths(3) >>, << Eighths(0), Eighths(3), Eighths(6) >>}

\* createChord when Math.random picks the root BASE_NOTES[r], the octave
\* shift (up), the triad TRIADS[t] and the phases ph.
CreateChord(r, up, t, ph) ==
  [j \in 1..Len(TRIADS[t]) |->
     [freq |-> BASE_NOTES[r] * (IF up THEN 2 ELSE 1) * IntervalRatio(TRIADS[t][j]),
      phase |-> ph[j]]]

Chords ==
  {CreateChord(r, up, t, ph) :
     r \in 1..Len(BASE_NOTES), up \in BOOLEAN, t \in 1..Len(TRIADS),
     ph \in PhaseDraws}

\* The voice after one sample: the phase advanced by its increment, which
\* is voice.freq phase units exactly, and wrapped once.
AdvanceVoice(voice) ==
  LET phaseIncrement == (TWO_PI * voice.freq) \div (sampleRate * FreqUnits)
      phase == voice.phase + phaseIncrement
  IN  [freq |-> voice.freq,
       phase |-> IF phase >= TWO_PI THEN phase - TWO_PI ELSE phase]

RECURSIVE SumSin(_)
SumSin(vs) == IF Len(vs) = 0 THEN 0 ELSE Sin(Head(vs).phase) + SumSin(Tail(vs))

\* A mix that is the sum of the voices.
MixUndivided(vs) == [num |-> SumSin(vs), den |-> SinScale]

\* sample / this.voices.length
Mix(vs) == [num |-> SumSin(vs), den |-> SinScale * Len(vs)]

\* A window that ends one sample late.
ChordElapsedLate(count) == count > chordDurationSamples

\* this.samplesSinceChange >= this.chordDurationSamples
ChordElapsed(count) == count >= chordDurationSamples

\* A renderSample that never takes the silent branch.
SilentNever == FALSE

\* renderSample takes its silent branch.
Silent == ~isActive

\* renderSample when createChord, if called, returns chord: the counter and
\* the voices it leaves, the sample it returns, whether it replaced the chord.
RenderSample(chord) ==
  IF Silent
  THEN [count |-> samplesSinceChange, voices |-> voices, sample |-> Zero,
        replaced |-> FALSE]
  ELSE LET count == samplesSinceChange + 1
           replaced == ChordElapsed(count)
           sounding == IF replaced THEN chord ELSE voices
           advanced == [j \in 1..Len(sounding) |-> AdvanceVoice(sounding[j])]
       IN  [count |-> IF replaced THEN 0 ELSE count, voices |-> advanced,
            sample |-> Mix(advanced), replaced |-> replaced]

\* new AudioWorkletNode(context, 'harmonic-generator'): the constructor.
Construct(chord) ==
  /\ ~built
  /\ built' = TRUE
  /\ isActive' = FALSE
  /\ samplesSinceChange' = 0
  /\ voices' = chord
  /\ chordRun' = 0
  /\ chordBroken' = FALSE
  /\ chordFirst' = TRUE
  /\ replacedNow' = FALSE
  /\ lastSample' = None
  /\ UNCHANGED << output, blockPos, blockGains, blockRendered >>
  /\ UNCHANGED << engineVars, seqVars, disposed >>

\* A deactivation that leaves the counter running.
CounterKeptAtDeactivation(count) == count

\* this.samplesSinceChange = 0 when the message deactivates.
CounterAtDeactivation(count) == 0

\* port.onmessage with {type: 'set-active', active}; messages are handled
\* between blocks.
SetActive(active) ==
  /\ built
  /\ blockPos = None
  /\ isActive' = active
  /\ IF active
     THEN UNCHANGED << samplesSinceChange, chordRun, chordBroken >>
     ELSE /\ samplesSinceChange' = CounterAtDeactivation(samplesSinceChange)
          /\ chordRun' = 0
          /\ chordBroken' = TRUE
  /\ replacedNow' = FALSE
  /\ lastSample' = None
  /\ UNCHANGED << built, voices, output, blockPos, blockGains, blockRendered,
                  chordFirst >>
  /\ UNCHANGED << engineVars, seqVars, disposed >>

\* process() called without an output: it returns at once.
ProcessAbsent ==
  /\ built
  /\ blockPos = None
  /\ output' = None
  /\ blockRendered' = 0
  /\ replacedNow' = FALSE
  /\ lastSample' = None
  /\ UNCHANGED << built, isActive, samplesSinceChange, voices, blockPos,
                  blockGains, chordRun, chordBroken, chordFirst >>
  /\ UNCHANGED << engineVars, seqVars, disposed >>

\* The gain arrays of a block of frames frames: one value, or one per frame.
GainArrays(frames) == [1..1 -> Gains] \cup [1..frames -> Gains]

\* process() called with an output of channels channels of frames frames
\* each and the gain values gains: the loops start.
ProcessBegin(channels, frames, gains) ==
  /\ built
  /\ blockPos = None
  /\ output' = Some([c \in 1..channels |-> << >>])
  /\ blockPos' = Some([channel |-> 0, i |-> 0, channels |-> channels,
                       frames |-> frames])
  /\ blockGains' = gains
  /\ blockRendered' = 0
  /\ replacedNow' = FALSE
  /\ lastSample' = None
  /\ UNCHANGED << built, isActive, samplesSinceChange, voices, chordRun,
                  chordBroken, chordFirst >>
  /\ UNCHANGED << engineVars, seqVars, disposed >>

\* The chords createChord may return in the next renderSample: any, when the
\* chord is replaced; else it is not called.
NewChords ==
  IF ~Silent /\ ChordElapsed(samplesSinceChange + 1) THEN Chords ELSE {voices}

\* One turn of the inner loop of process(): buffer[i] = renderSample() * gain.
ProcessSample(chord) ==
  /\ blockPos # None
  /\ LET pos == Val(blockPos)
         r == RenderSample(chord)
         gain == IF Len(blockGains) > 1 THEN blockGains[pos.i + 1] ELSE blockGains[1]
     IN  /\ output' = Some([Val(output) EXCEPT ![pos.channel + 1] =
                              Append(@, Times(r.sample, gain))])
         /\ blockPos' =
              IF pos.i + 1 < pos.frames
              THEN Some([pos EXCEPT !.i = pos.i + 1])
              ELSE IF pos.channel + 1 < pos.channels
                   THEN Some([pos EXCEPT !.channel = pos.channel + 1, !.i = 0])
                   ELSE None
         /\ samplesSinceChange' = r.count
         /\ voices' = r.voices
         /\ lastSample' = Some(r.sample)
         /\ replacedNow' = r.replaced
         /\ blockRendered' = IF Silent THEN blockRendered ELSE blockRendered + 1
         /\ chordRun' = IF Silent THEN chordRun
                        ELSE IF r.replaced THEN 1 ELSE chordRun + 1
         /\ chordBroken' = (chordBroken /\ ~r.replaced)
         /\ chordFirst' = (chordFirst /\ ~r.replaced)
  /\ UNCHANGED << built, isActive, blockGains >>
  /\ UNCHANGED << engineVars, seqVars, disposed >>

SynthNext ==
  \/ \E chord \in Chords : Construct(chord)
  \/ \E active \in BOOLEAN : SetActive(active)
  \/ ProcessAbsent
  \/ \E channels \in 1..MaxChannels, frames \in 1..MaxFrames :
       \E gains \in GainArrays(frames) : ProcessBegin(channels, frames, gains)
  \/ \E chord \in NewChords : ProcessSample(chord)

SynthSpec == Init /\ [][SynthNext]_vars

\* ------------------------------------------------------------- behaviours
SeekTargets == (0 - 1)..(MaxFileDur + 1)
\* The indices triggerInstrumentNote is called with: the ends of the table and
\* their outer neighbours.
NoteIndices == {0 - 1, 0, NumKeys - 1, NumKeys}

Next ==
  \/ \E kind \in {"url", "file"} : LoadInvalid(kind)
  \/ \E kind \in Kinds : LoadCall(kind)
  \/ \E i \in 1..MaxInFlight : LoadUrlResumed(i)
  \/ MediaCanPlay
  \/ MediaError
  \/ MediaFails
  \/ \E i \in 1..MaxInFlight : LoadFileResumed(i)
  \/ \E i \in 1..MaxInFlight, d \in 1..MaxFileDur : LoadFileDecoded(i, d)
  \/ \E i \in 1..MaxInFlight : LoadFileDecodeFailed(i)
  \/ \E i \in 1..MaxInFlight : LoadStreamResumed(i)
  \/ \E i \in 1..MaxInFlight : LoadStreamEnsured(i)
  \/ \E i \in 1..MaxInFlight : LoadWorkletLoaded(i)
  \/ \E i \in 1..MaxInFlight : LoadWorkletFailed(i)
  \/ \E i \in 1..MaxInFlight : LoadInstrumentResumed(i)
  \/ PlayCall
  \/ \E kind \in Kinds : LoadThenPlay(kind)
  \/ \E i \in 1..MaxInFlight : PlayResumed(i)
  \/ \E i \in 1..MaxInFlight : PlayMediaStarted(i)
  \/ \E i \in 1..MaxInFlight : PlayFileStart(i)
  \/ \E i \in 1..MaxInFlight : PlayFileStarted(i)
  \/ \E t \in SeekTargets : SeekCall(t)
  \/ \E i \in 1..MaxInFlight : SeekFileRestart(i)
  \/ \E index \in NoteIndices : TriggerCall(index)
  \/ \E i \in 1..MaxInFlight : TriggerResumed(i)
  \/ Pause
  \/ Stop
  \/ Tick
  \/ MediaEnded
  \/ BufferEnded

Spec == Init /\ [][Next]_vars

\* ------------------------------------------------------------ properties
\* How many timeline backends produce sound.
NumSounding == Cardinality({b \in Backends : Sounding(b)})

\* C1: in every reachable state at most one of the three timeline backends
\* (media element playing, started buffer-playback instance, activated
\* synthesizer node) is producing sound.
C1_AtMostOneSounding == NumSounding <= 1

\* The step completes, successfully, a loadSource call during which no other
\* call was made.
SoloLoadResolves ==
  /\ loadResult' = "resolved"
  /\ Len(calls) = 1
  /\ calls[1].op = "load"
  /\ calls[1].solo

\* C2: when a loadSource call for kind k completes successfully with no other
\* call in flight, state = ready, activeSource = k, currentTime = 0,
\* errorMessage is empty, the file and stream offsets are 0 with their start
\* instants cleared, and duration = 0 when k is stream or instrument.
C2_LoadSuccessPostState ==
  [][SoloLoadResolves =>
       /\ state' = "ready"
       /\ activeSource' = calls[1].src
       /\ currentTime' = 0
       /\ errorMessage' = ""
       /\ bufferOffset' = 0 /\ bufferStartedAt' = None
       /\ streamOffset' = 0 /\ streamStartedAt' = None
       /\ (calls[1].src \in {"stream", "instrument"} => duration' = 0)]_vars

\* The step is the failure of a loadSource call: a descriptor failing
\* validation, the element's error event with a load waiting for readiness, a
\* rejected decode, a rejected worklet module load.
LoadFails ==
  \/ \E kind \in {"url", "file"} : LoadInvalid(kind)
  \/ MediaError /\ (\E j \in 1..Len(calls) : calls[j].pc = "canplay")
  \/ \E i \in 1..Len(calls) : LoadFileDecodeFailed(i) \/ LoadWorkletFailed(i)

\* C3: whenever a loadSource call fails, the session ends in state error with
\* a non-empty errorMessage and the failure is re-raised to the caller (the
\* call's promise rejects).
C3_LoadFailureSurfaces ==
  [][LoadFails =>
       /\ state' = "error"
       /\ errorMessage' # ""
       /\ loadResult' = "rejected"]_vars

\* C3's case: a load has just failed on the element's error event.
C3_Witness ==
  loadResult = "rejected" /\ errorMessage = MsgMedia /\ state = "error"

\* The step is a load failure (element error or rejected decode) of a
\* loadSource call during which no other call was made.
SoloLoadFailure ==
  /\ Len(calls) = 1
  /\ calls[1].op = "load"
  /\ calls[1].solo
  /\ \/ MediaError /\ calls[1].pc = "canplay"
     \/ LoadFileDecodeFailed(1)

\* C4: whenever a loadSource call ends in a load failure (element error or
\* decode failure) while a previous source was playing, the previous backend
\* is torn down by the time state becomes error: no buffer-playback instance
\* is started, the synthesizer is silent, the media element is not playing.
C4_FailureAfterTearDown ==
  [][(SoloLoadFailure /\ NumSounding > 0) => NumSounding' = 0]_vars

\* The step is a loadSource call rejected by validation.
InvalidInputStep ==
  loadResult' = "rejected" /\ errorMessage' \in {MsgBadUrl, MsgBadType}

\* C5 as stated: a loadSource call with an invalid descriptor leaves state,
\* activeSource and every backend resource as they were before the call.
C5_InvalidInputChangesNothing ==
  [][InvalidInputStep =>
       UNCHANGED << state, activeSource, ctx, mediaVars, fileVars, streamVars >>]_vars

\* C5, amended: a loadSource call with an invalid descriptor is rejected
\* before any backend is touched: activeSource and every backend resource
\* (engine context, media element, buffer-playback instance, synthesizer
\* node, offsets, start instants) are as before the call, while state becomes
\* error and errorMessage holds the validation message.
C5_InvalidInputTouchesNoBackend ==
  [][InvalidInputStep =>
       /\ UNCHANGED << activeSource, ctx, mediaVars, fileVars, streamVars >>
       /\ state' = "error"
       /\ errorMessage' # ""]_vars

\* C5's case: a file of a non-audio type was rejected while a file was
\* playing, and the instance is still there.
C5_Witness ==
  /\ loadResult = "rejected" /\ errorMessage = MsgBadType
  /\ activeSource = "file" /\ bufferSource # None

\* C6: after a successful loadSource(next) the previous backend no longer
\* produces sound: at the step that completes the load no buffer-playback
\* instance is started, no synthesizer node (referenced or dropped) is
\* active, and the media element is paused unless next is url; when next is
\* url and no other call was made during the load, the element is paused too.
C6_SwitchSilencesPrevious ==
  [][loadResult' = "resolved" =>
       /\ ~FileSounding'
       /\ ~SynthSounding'
       /\ (activeSource' # "url" => ~MediaSounding')
       /\ (SoloLoadResolves => ~MediaSounding')]_vars

\* C6's case: a load has just completed and its tear-down silenced the
\* synthesizer of the stream session before it.
C6_Witness ==
  /\ loadResult = "resolved" /\ activeSource = "file"
  /\ "synth" \in stopped /\ calls = << >>

\* Call i is a play or seek call after which stop(), pause() or loadSource()
\* was called, and the step is one of its continuations.
SupersededContinues(i) ==
  /\ calls[i].op \in {"play", "seek"}
  /\ ~calls[i].solo
  /\ \/ PlayResumed(i)
     \/ PlayMediaStarted(i)
     \/ PlayFileStart(i)
     \/ PlayFileStarted(i)
     \/ SeekFileRestart(i)

\* C7: the continuation of a play() or seek-restart superseded by stop(),
\* pause() or a later loadSource() takes no effect: it starts no
\* buffer-playback instance, does not activate the synthesizer, does not
\* start the media element and does not set state to playing.
C7_SupersededContinuationInert ==
  [][\A i \in 1..Len(calls) :
       SupersededContinues(i) =>
         /\ bufferSource' \in {None, bufferSource}
         /\ (synthActive' => synthActive)
         /\ (mPaused => mPaused')
         /\ (state' = "playing" => state = "playing")]_vars

\* C8: the ended handler of a buffer-playback instance superseded by pause,
\* stop, a seek-restart, a repeated play or a loadSource never takes effect:
\* no superseded instance still carries a handler, so the ended event
\* delivered to it runs no code.
C8_NoStaleEndedHandler == ~staleArmed

\* C8's case: a loadSource has just torn down a playing buffer-playback
\* instance, whose ended event is yet to come.
C8_Witness ==
  loadResult = "resolved" /\ "file" \in stopped /\ calls = << >>

\* The step makes a seekTo, stop or loadSource call.
IssuesSeekStopLoad ==
  \/ \E t \in SeekTargets : SeekCall(t)
  \/ Stop
  \/ \E kind \in Kinds : LoadCall(kind) \/ LoadInvalid(kind)

\* The session is in state st on a File or Stream source before and after
\* the step, and the step makes no seekTo, stop or loadSource call.
StaysIn(st) ==
  /\ state = st /\ state' = st
  /\ activeSource \in {"file", "stream"} /\ activeSource' = activeSource
  /\ ~IssuesSeekStopLoad

\* C9: for File and Stream, as long as state stays playing and no seek, stop
\* or loadSource is issued, the elapsed time the sampler computes never
\* decreases, whatever other operations are called in between.
C9_MonotoneWhilePlaying ==
  [][StaysIn("playing") => Sampled' >= Sampled]_vars

\* C10: for File and Stream, as long as state stays paused and no seek, stop
\* or loadSource is issued, the elapsed time the sampler computes stays
\* constant however far the clock advances and however often pause() is
\* called again.
C10_FrozenWhilePaused ==
  [][StaysIn("paused") => Sampled' = Sampled]_vars

\* Everything of the session: React state, refs, platform objects and the
\* calls in flight.
sessionVars == << reactVars, ctx, now, mediaVars, fileVars, streamVars, calls >>

\* C11: stop() called directly after stop(), or pause() called directly after
\* a pause() that left state paused, leaves the whole session as it was after
\* the first call: same state, currentTime, offsets, start instants, and no
\* further buffer-playback instance or node.
C11_StopPauseIdempotent ==
  [][(\/ LastWas("stop") /\ Stop
      \/ LastWas("pause") /\ state = "paused" /\ Pause)
       => UNCHANGED sessionVars]_vars

\* C11's case: pause() has just been called a second time on a paused stream
\* whose offset is not 0, the clock having advanced since it was played.
C11_Witness ==
  /\ lastCall = "pause-again"
  /\ activeSource = "stream" /\ state = "paused"
  /\ streamOffset > 0 /\ now > streamOffset

\* C12: for a File backend with duration D and every target t, immediately
\* after seek(t) the elapsed time equals min(D, max(0, t)) in each of the
\* states ready, playing and paused: currentTime is set to it by the call,
\* the sampler computes it at once when the file is not playing, and computes
\* it (clamped to the duration of the file loaded by then) once the restart
\* has run when the file is playing.
C12_SeekClamps ==
  [][/\ \A t \in SeekTargets :
          (/\ activeSource = "file" /\ decodedBuffer # None
           /\ state \in {"ready", "playing", "paused"}
           /\ SeekCall(t))
          => /\ currentTime' = Min(Val(decodedBuffer), Max(0, t))
             /\ (state # "playing" => Sampled' = Min(Val(decodedBuffer), Max(0, t)))
     /\ \A i \in 1..Len(calls) :
          (/\ activeSource = "file" /\ decodedBuffer # None
           /\ SeekFileRestart(i))
          => Sampled' = Min(Val(decodedBuffer), calls[i].arg)]_vars

\* C12's case: seek to the end of the file or beyond has just been called on
\* a paused file that was paused before its end.
C12_Witness ==
  /\ lastCall = "seek" /\ activeSource = "file" /\ state = "paused"
  /\ decodedBuffer # None /\ currentTime = Val(decodedBuffer)
  /\ bufferOffset = Val(decodedBuffer) /\ bufferStartedAt = Some(now - Val(decodedBuffer))

\* C13: seek(t) with a Stream or Instrument source active is a silent no-op
\* for every t and every state: state, currentTime, errorMessage, the stream
\* offset and start instant and the synthesizer activation are unchanged (as
\* is every other part of the session), and no error state is entered.
C13_SeekUnsupportedNoOp ==
  [][\A t \in SeekTargets :
       (activeSource \in {"stream", "instrument"} /\ SeekCall(t))
       => UNCHANGED << reactVars, ctx, now, mediaVars, fileVars, streamVars >>]_vars

\* C13's case: seek has just been called on a stream that is playing, with a
\* media element left over from an earlier URL session.
C13_Witness ==
  /\ lastCall = "seek" /\ activeSource = "stream"
  /\ state = "playing" /\ synthActive /\ mExists

\* The logical offset of the active kind is 0 and its start instant cleared:
\* the element is rewound for a URL, the refs are reset for File and Stream.
ActiveOffsetReset ==
  CASE activeSource = "url" -> mTime = 0
    [] activeSource = "file" -> bufferOffset = 0 /\ bufferStartedAt = None
    [] activeSource = "stream" -> streamOffset = 0 /\ streamStartedAt = None
    [] OTHER -> TRUE

\* C14: for every active kind and from each of the states ready, playing and
\* paused, stop() ends with state = ready, elapsed time 0, logical offset 0
\* and start instant cleared (so that a following play() starts from position
\* 0), and no timeline backend sounding.
C14_StopResets ==
  [][(activeSource \in Kinds /\ state \in {"ready", "playing", "paused"} /\ Stop)
       => /\ state' = "ready"
          /\ currentTime' = 0
          /\ Sampled' = 0
          /\ ActiveOffsetReset'
          /\ NumSounding' = 0]_vars

\* C15: in every reachable state in which the active kind is instrument,
\* state is neither playing nor paused.
C15_InstrumentNeverPlaying ==
  activeSource = "instrument" => state \notin {"playing", "paused"}

\* The play calls in flight.
PlaysInFlight == InFlight({"play"})

\* C16: play() called while a loadSource call is in progress is a no-op: it
\* starts no backend, sends no activation message, leaves state loading and
\* does not go on to its awaits, also when it is called right after
\* loadSource() in the same task.
C16_PlayWhileLoadingNoOp ==
  [][((state = "loading" /\ PlayCall) \/ (\E kind \in Kinds : LoadThenPlay(kind)))
       => /\ state' = "loading"
          /\ PlaysInFlight' = PlaysInFlight
          /\ UNCHANGED << mediaVars, fileVars, streamVars >>]_vars

\* C17 as stated: once a failed loadSource has recorded an error message,
\* errorMessage stays non-empty until a loadSource call completes
\* successfully; a loadSource call still in progress does not clear it.
C17_MessageKeptUntilSuccess ==
  [][(errorMessage # "" /\ loadResult' # "resolved") => errorMessage' # ""]_vars

\* C17, amended: once a failed loadSource has recorded an error message,
\* errorMessage keeps that message until the next loadSource call is made
\* (which clears it as it starts) or a load in flight fails and records its
\* own message; play, pause, stop, seek, continuations, events and the
\* successful completion of a load do not change it.
C17_MessageKeptUntilNextLoad ==
  [][errorMessage # "" =>
       \/ errorMessage' = errorMessage
       \/ loadCalls' # loadCalls
       \/ loadResult' = "rejected" /\ errorMessage' # ""]_vars

\* C17's case: the message of a rejected file is still there after pause()
\* was called on the session.
C17_Witness ==
  errorMessage = MsgBadType /\ state = "paused" /\ LastWas("pause")

\* The tone calls in flight.
NotesInFlight == InFlight({"note"})

\* C19: triggerInstrumentNote(i) creates an enveloped tone if and only if the
\* active kind is instrument and i is an index 0..16 of the key table (the
\* call goes on to create one, and every tone comes from such a call); in
\* every case it leaves state, activeSource, currentTime, duration,
\* errorMessage and all timeline backends unchanged.
C19_TriggerCreatesToneIff ==
  [][/\ \A index \in NoteIndices :
          TriggerCall(index) =>
            /\ NotesInFlight' = NotesInFlight + 1
                 <=> (activeSource = "instrument" /\ index \in 0..16)
            /\ NotesInFlight' \in {NotesInFlight, NotesInFlight + 1}
            /\ tones' = tones
            /\ UNCHANGED << reactVars, mediaVars, fileVars, streamVars >>
     /\ tones' # tones =>
          /\ tones' = tones + 1
          /\ NotesInFlight' = NotesInFlight - 1
          /\ UNCHANGED << reactVars, mediaVars, fileVars, streamVars >>
     /\ NotesInFlight' < NotesInFlight => tones' = tones + 1]_vars

\* C19's case: a tone has just been created for the last key of the table.
C19_Witness ==
  tones = 1 /\ activeSource = "instrument" /\ NotesInFlight = 0

\* C18: after component disposal no backend is sounding and no timer remains
\* pending, and no Score Sequencer timer fires a trigger or a highlight
\* afterwards: a step never ends disposed with a backend sounding or a
\* Sequencer timeout pending, and a step taken after the disposal processes no
\* score entry and changes no highlight.
C18_DisposalLeavesNothing ==
  [][/\ disposed' => (NumSounding' = 0 /\ seqTimers' = << >>)
     /\ disposed => (seqLog' = seqLog /\ highlight' = highlight)]_vars

\* The code of a score entry names a key of the layout.
IsKeyName(code) ==
  code # "-" /\ \E k \in 1..Len(KALIMBA_LAYOUT) : KALIMBA_LAYOUT[k] = code

\* C20: the entries of the score played are processed once each in score
\* order; an entry triggers the key its code names, and triggers nothing when
\* it is a rest or names no key; entry i+1 is processed no sooner than entry
\* i's duration, a number of base units, after entry i; and completion is
\* signalled only when every entry was processed and the last one's duration
\* has elapsed.
C20_TriggersInOrderAndOnTime ==
  /\ Len(seqLog) <= Len(seqScore)
  /\ \A k \in 1..Len(seqLog) :
       /\ seqLog[k].entry = k - 1
       /\ IF IsKeyName(seqScore[k].code)
          THEN /\ seqLog[k].note # None
               /\ KALIMBA_LAYOUT[Val(seqLog[k].note) + 1] = seqScore[k].code
          ELSE seqLog[k].note = None
       /\ ParseInt(seqScore[k].duration) # NaN =>
            /\ k < Len(seqLog) =>
                 seqLog[k + 1].at >= seqLog[k].at + Val(ParseInt(seqScore[k].duration))
            /\ (k = Len(seqLog) /\ seqDoneAt # None) =>
                 Val(seqDoneAt) >= seqLog[k].at + Val(ParseInt(seqScore[k].duration))
  /\ seqDoneAt # None => Len(seqLog) = Len(seqScore)

\* A two-entry score, a key held two units then a rest, was played to its
\* completion: one trigger, at the start, and the rest two units later.
C20_Witness ==
  /\ seqDoneAt # None
  /\ Len(seqScore) = 2
  /\ seqScore[1] = [code |-> "C4", duration |-> "2"]
  /\ seqScore[2].code = "-"
  /\ seqLog[1].note = Some(8)
  /\ seqLog[2].at = seqLog[1].at + 2

\* Microseconds from the play() call (the instant entry 0 was processed) to
\* the instant t.
SincePlay(t) == (t - seqLog[1].at) * BASE_UNIT_US

\* The scenario score is the one played and its entries processed so far
\* triggered C4 (position 8), nothing, E4 (position 9).
ScenarioTriggers ==
  /\ Len(seqLog) >= 1 => seqLog[1].note = Some(8)
  /\ Len(seqLog) >= 2 => seqLog[2].note = None
  /\ Len(seqLog) >= 3 => seqLog[3].note = Some(9)

\* C21 as stated: C4 is triggered at 0 ms, the rest is reached at 31.25 ms, E4
\* is triggered at 62.5 ms and completion is signalled at 93.75 ms after the
\* play call.
C21_ScenarioOneUnitApart ==
  seqScore = ScenarioScore =>
    /\ ScenarioTriggers
    /\ Len(seqLog) >= 1 => SincePlay(seqLog[1].at) = 0
    /\ Len(seqLog) >= 2 => SincePlay(seqLog[2].at) = 31250
    /\ Len(seqLog) >= 3 => SincePlay(seqLog[3].at) = 62500
    /\ seqDoneAt # None => SincePlay(Val(seqDoneAt)) = 93750

\* C21: for the scenario score, whose entries last 16 base units each, C4 is
\* triggered at 0 ms, the rest is reached with no trigger at 500 ms, E4 is
\* triggered at 1000 ms and completion is signalled at 1500 ms after the play
\* call.
C21_ScenarioSixteenUnitsApart ==
  seqScore = ScenarioScore =>
    /\ ScenarioTriggers
    /\ Len(seqLog) >= 1 => SincePlay(seqLog[1].at) = 0
    /\ Len(seqLog) >= 2 => SincePlay(seqLog[2].at) = 500000
    /\ Len(seqLog) >= 3 => SincePlay(seqLog[3].at) = 1000000
    /\ seqDoneAt # None => SincePlay(Val(seqDoneAt)) = 1500000

\* The scenario score was played to its completion.
C21_Witness ==
  /\ seqScore = ScenarioScore
  /\ Len(seqLog) = 3
  /\ seqDoneAt # None

\* The state stop() leaves the Sequencer in.
SeqStopped ==
  /\ ~seqIsPlaying
  /\ seqCurrentIndex = None
  /\ highlight = None
  /\ seqTimers = << >>

\* C22: stop() at any point leaves isPlaying false, the highlight cleared and
\* no timer pending; a stop() in that state changes nothing; and as long as no
\* timer is pending and play() is not called, no score entry is processed (no
\* trigger), no highlight is set and no timer appears, however much time
\* passes.
C22_StopCancelsEverything ==
  [][/\ SeqStop => SeqStopped'
     /\ (SeqStop /\ SeqStopped) => UNCHANGED seqVars
     /\ (seqTimers = << >> /\ ~(\E sc \in Scores : SeqPlay(sc))) =>
          /\ seqLog' = seqLog
          /\ seqTimers' = << >>
          /\ highlight' \in {highlight, None}]_vars

\* A two-entry score was stopped after its first entry, a key, and the time
\* its second entry was scheduled for has passed twice over.
C22_Witness ==
  /\ SeqStopped
  /\ seqDoneAt = None
  /\ Len(seqScore) = 2
  /\ Len(seqLog) = 1
  /\ seqLog[1].note # None
  /\ seqNow >= seqLog[1].at + 4

\* C23: a play(score) that nothing interrupts reaches completion: a sequence
\* that is playing is eventually one whose every entry was processed, with
\* completion signalled, isPlaying false, the highlight cleared and no timer
\* pending; the play of the empty score is in that state at once.
C23_UninterruptedPlayCompletes ==
  /\ seqIsPlaying ~> (/\ SeqStopped
                      /\ seqDoneAt # None
                      /\ Len(seqLog) = Len(seqScore))
  /\ [][(UninterruptedPlay(<< >>)) => SeqStopped']_vars

\* A score of two entries, each lasting, was played to its completion.
C23_Witness ==
  /\ SeqStopped
  /\ seqDoneAt # None
  /\ Len(seqScore) = 2
  /\ Len(seqLog) = 2
  /\ Val(seqDoneAt) = seqLog[1].at + ScheduleLength(seqScore)
  /\ ScheduleLength(seqScore) >= 3

\* The sample the step just taken wrote, when it is a turn of process()'s
\* inner loop.
Written == Val(output')[Val(blockPos).channel + 1][Val(blockPos).i + 1]

\* C24: while the synthesizer is inactive, every sample a block writes is 0
\* whatever the gain, and rendering it leaves the elapsed-sample counter and
\* every voice's frequency and phase as they were.
C24_InactiveRendersSilence ==
  [][(built /\ ~isActive /\ blockPos # None) =>
       /\ Written.num = 0
       /\ lastSample' = Some(Zero)
       /\ UNCHANGED << samplesSinceChange, voices >>]_vars

\* An inactive synthesizer wrote a block of two frames under the gains 1/2
\* and 1.
C24_Witness ==
  /\ built
  /\ ~isActive
  /\ blockPos = None
  /\ output # None
  /\ blockGains = << 1, 2 >>
  /\ Len(Val(output)[1]) = 2
  /\ lastSample = Some(Zero)

\* C25 as stated: a deactivation message leaves the elapsed-sample counter at
\* 0, and a chord that is replaced after a deactivation has sounded
\* chordDurationSamples rendered samples since then.
C25_FullWindowAfterDeactivation ==
  [][/\ SetActive(FALSE) => samplesSinceChange' = 0
     /\ (replacedNow' /\ chordBroken) => chordRun = chordDurationSamples]_vars

\* C25: a deactivation message leaves the elapsed-sample counter at 0, and a
\* chord that is replaced after a deactivation has sounded
\* chordDurationSamples - 1 rendered samples since then, however many had
\* elapsed before the deactivation: it is replaced on the sample that brings
\* the counter to chordDurationSamples.
C25_WindowLessOneAfterDeactivation ==
  [][/\ SetActive(FALSE) => samplesSinceChange' = 0
     /\ (replacedNow' /\ chordBroken) =>
          /\ chordRun = chordDurationSamples - 1
          /\ samplesSinceChange = chordDurationSamples - 1]_vars

\* A chord that replaced another was cut by a deactivation and has since
\* sounded all the samples it will.
C25_Witness ==
  /\ isActive
  /\ chordBroken
  /\ ~chordFirst
  /\ blockPos # None
  /\ chordRun = chordDurationSamples - 1

\* The step is a turn of process()'s inner loop that brings the counter of an
\* active synthesizer to chordDurationSamples.
WindowElapses ==
  /\ blockPos # None
  /\ isActive
  /\ samplesSinceChange + 1 = chordDurationSamples

\* C26 as stated: the counter stays in 0..chordDurationSamples - 1, the chord
\* is replaced exactly on the active sample that brings the counter to
\* chordDurationSamples, and every chord no deactivation cut, the first one
\* included, has then sounded chordDurationSamples active samples.
C26_EveryChordFullWindow ==
  [][/\ samplesSinceChange' \in 0..(chordDurationSamples - 1)
     /\ replacedNow' <=> WindowElapses
     /\ (replacedNow' /\ ~chordBroken) => chordRun = chordDurationSamples]_vars

\* C26: the counter stays in 0..chordDurationSamples - 1, the chord is
\* replaced exactly on the active sample that brings the counter to
\* chordDurationSamples, and a chord no deactivation cut has then sounded
\* chordDurationSamples active samples, but for the chord of the constructor,
\* which has sounded chordDurationSamples - 1.
C26_ChordWindows ==
  [][/\ samplesSinceChange' \in 0..(chordDurationSamples - 1)
     /\ replacedNow' <=> WindowElapses
     /\ (replacedNow' /\ ~chordBroken) =>
          chordRun = IF chordFirst THEN chordDurationSamples - 1
                                   ELSE chordDurationSamples]_vars

\* A chord that replaced another has sounded a full window and is replaced at
\* the next sample.
C26_Witness ==
  /\ WindowElapses
  /\ ~chordFirst
  /\ ~chordBroken
  /\ chordRun = chordDurationSamples

\* The samples of the block written so far.
WrittenSamples ==
  IF output = None
  THEN {}
  ELSE UNION {{Val(output)[c][i] : i \in 1..Len(Val(output)[c])} :
                c \in 1..Len(Val(output))}

\* C27: the current chord always has exactly 3 voices; the sample an active
\* renderSample returns is the mean of the three voices' sines (three times
\* the sample is their sum) and lies within [-1, 1]; and every sample written,
\* under a gain within [0, 1], lies within [-1, 1].
C27_ThreeVoicesMeanWithinUnit ==
  built =>
    /\ Len(voices) = 3
    /\ (lastSample # None /\ isActive) =>
         /\ 3 * Val(lastSample).num * SinScale =
              Val(lastSample).den * (Sin(voices[1].phase) + Sin(voices[2].phase)
                                       + Sin(voices[3].phase))
         /\ WithinUnit(Val(lastSample))
    /\ \A w \in WrittenSamples : WithinUnit(w)

\* An active synthesizer returned a sample above 1/2: its three voices are
\* near their crests together.
C27_Witness ==
  /\ built
  /\ isActive
  /\ lastSample # None
  /\ Val(lastSample).num * 2 > Val(lastSample).den
  /\ output # None
  /\ \E w \in WrittenSamples : w.num * 2 > w.den

\* Every channel of the block holds, frame by frame, the same value as far as
\* both are written.
ChannelsAgree ==
  output # None =>
    \A c1, c2 \in 1..Len(Val(output)) :
      \A i \in 1..Len(Val(output)[c1]) :
        i <= Len(Val(output)[c2]) =>
          SameValue(Val(output)[c1][i], Val(output)[c2][i])

\* C28: the channels of a block hold the same samples, the mono signal
\* duplicated; when a block of an active synthesizer is complete, the state
\* has advanced by one sample step per frame, whatever the number of
\* channels; and a call without an output changes no state.
C28_MonoDuplicatedOneStepPerFrame ==
  [][/\ ChannelsAgree'
     /\ (blockPos # None /\ blockPos' = None /\ isActive) =>
          blockRendered' = Val(blockPos).frames
     /\ ProcessAbsent => UNCHANGED << isActive, samplesSinceChange, voices >>]_vars

\* The step is a play() whose audio.play() the element rejects.
PlayRejects ==
  \E i \in 1..Len(calls) :
    /\ calls[i].op = "play" /\ calls[i].src = "url"
    /\ mExists /\ mStatus = "error"
    /\ PlayResumed(i)

\* C29: when, with a URL source loaded, the media element fails (an error
\* event after the load, or audio.play() rejected), the state becomes error
\* and an error message is recorded.
C29_ElementFailureSurfaces ==
  [][(/\ activeSource = "url"
      /\ state \in {"ready", "playing", "paused"}
      /\ (MediaFails \/ PlayRejects)) =>
       (state' = "error" /\ errorMessage' # "")]_vars

\* The step is the continuation of a play() of the file that was called while
\* paused and that nothing superseded, starting the instance at the logical
\* offset stored.
ResumesFile ==
  \E i \in 1..Len(calls) :
    /\ calls[i].op = "play" /\ calls[i].src = "file" /\ calls[i].solo
    /\ calls[i].arg = bufferOffset
    /\ PlayFileStart(i)

\* The step is the last one of such a play(), after the instance has been
\* started.
ResumedFile ==
  \E i \in 1..Len(calls) :
    /\ calls[i].op = "play" /\ calls[i].src = "file" /\ calls[i].solo
    /\ calls[i].arg = bufferOffset
    /\ PlayFileStarted(i)

\* C30: for a File source, pause() while playing stores
\* p = clamp(engineNow - startInstant, 0, duration) as the logical offset,
\* clears the start instant and leaves the elapsed time at p; the time that
\* passes while paused leaves p alone; and the play() that follows starts an
\* instance at p with start instant engineNow - p, so that the elapsed time
\* right after resuming is p.
C30_FilePauseResumeKeepsPosition ==
  [][/\ (activeSource = "file" /\ state = "playing" /\ bufferSource # None
           /\ decodedBuffer # None /\ Pause) =>
          /\ bufferStartedAt # None
          /\ bufferOffset' =
               Min(Val(decodedBuffer), Max(0, now - Val(bufferStartedAt)))
          /\ bufferStartedAt' = None
          /\ state' = "paused"
          /\ Sampled' = bufferOffset'
     /\ (activeSource = "file" /\ state = "paused" /\ Tick) =>
          (bufferOffset' = bufferOffset /\ Sampled' = bufferOffset)
     /\ (activeSource = "file" /\ state = "paused" /\ decodedBuffer # None
           /\ ResumesFile) =>
          /\ bufferSource' # None
          /\ bufferOffset' = bufferOffset
          /\ bufferStartedAt' = Some(now - bufferOffset)
          /\ Sampled' = bufferOffset
     /\ (activeSource = "file" /\ state = "paused" /\ decodedBuffer # None
           /\ ResumedFile) =>
          /\ bufferSource # None
          /\ bufferStartedAt = Some(now - bufferOffset)
          /\ state' = "playing"
          /\ Sampled' = bufferOffset]_vars

\* A file playing was paused at position 1 and has stayed paused since, and
\* the play() called to resume it is about to start the instance at 1.
C30_Witness ==
  /\ activeSource = "file"
  /\ state = "paused"
  /\ decodedBuffer # None
  /\ bufferSource = None
  /\ bufferStartedAt = None
  /\ bufferOffset = 1
  /\ now >= 2
  /\ \E i \in 1..Len(calls) :
       /\ calls[i].op = "play" /\ calls[i].pc = "resume2"
       /\ calls[i].solo /\ calls[i].arg = 1

\* The step is a seekTo(t) on a file source.
FileSeek(t) == activeSource = "file" /\ decodedBuffer # None /\ SeekCall(t)

\* The step is the restart a seekTo of the playing file waited for, when
\* nothing superseded that call and the file is still playing.
FileSeekRestarts(i) ==
  /\ activeSource = "file" /\ state = "playing" /\ decodedBuffer # None
  /\ i \in 1..Len(calls)
  /\ calls[i].op = "seek" /\ calls[i].solo
  /\ SeekFileRestart(i)

\* C31: a seek on a File source leaves the transport state as it is; in state
\* ready or paused it stores the clamped target as the logical offset (and the
\* start instant that goes with it), creates no instance, starts no call and
\* changes nothing that sounds; in state playing its restart leaves one
\* instance referenced, playing from the clamped target.
C31_FileSeekKeepsTransportState ==
  [][/\ \A t \in SeekTargets :
          FileSeek(t) =>
            /\ state' = state
            /\ state \in {"ready", "paused"} =>
                 /\ bufferOffset' = Min(Val(decodedBuffer), Max(0, t))
                 /\ ctx => bufferStartedAt' = Some(now - bufferOffset')
                 /\ bufferSource' = bufferSource
                 /\ Len(calls') = Len(calls)
                 /\ \A b \in Backends : Sounding(b)' = Sounding(b)
     /\ \A i \in 1..MaxInFlight :
          FileSeekRestarts(i) =>
            /\ state' = "playing"
            /\ bufferSource' # None
            /\ bufferOffset' = Min(Val(decodedBuffer), calls[i].arg)
            /\ Sampled' = bufferOffset']_vars

\* A paused file was sought to its end: no instance, the offset at the end.
C31_Witness ==
  /\ lastCall = "seek"
  /\ activeSource = "file"
  /\ state = "paused"
  /\ bufferSource = None
  /\ decodedBuffer = Some(MaxFileDur)
  /\ bufferOffset = MaxFileDur
  /\ bufferStartedAt = Some(now - MaxFileDur)

\* C32: in every reachable state in which state is idle, ready or paused, no
\* timeline backend is producing sound.
C32_SilentUnlessPlaying ==
  state \in {"idle", "ready", "paused"} => NumSounding = 0

\* Every loadSource call the bounds allow has been made and has finished, the
\* one finishing last successfully.
LoadsFinished ==
  /\ loadCalls = MaxLoadCalls
  /\ InFlight({"load"}) = 0
  /\ state = "ready"

\* C33: when two loadSource calls overlap, once both have finished the
\* session has the source of the call made last, whatever the order in which
\* their asynchronous steps completed.
C33_LastLoadWins ==
  LoadsFinished => activeSource = lastLoad

\* C34: while a loadSource call is in progress state stays loading: pause(),
\* stop(), seekTo() and media or buffer end events during the load do not move
\* state out of loading.
C34_LoadingWhileLoadInFlight ==
  InFlight({"load"}) > 0 => state = "loading"

\* play(), pause(), stop() or seekTo() is called.
TransportCall ==
  PlayCall \/ Pause \/ Stop \/ \E t \in SeekTargets : SeekCall(t)

\* C35: once state is error it stays error until a fresh loadSource call:
\* play(), pause(), stop() and seekTo() called in state error do not change
\* state and start no backend.
C35_ErrorUntilNextLoad ==
  [][(state = "error" /\ TransportCall) =>
       /\ state' = "error"
       /\ \A b \in Backends : Sounding(b)' => Sounding(b)]_vars

\* A file source is loaded: the session's source is the file and its decoded
\* buffer is stored.
FileLoaded == activeSource = "file" /\ decodedBuffer # None

\* C36: for a file source with duration D, in every reachable state the
\* stored logical offset and the elapsed time the sampler reports lie in
\* [0, D], after any sequence of play, pause, stop, seek with any target and
\* loads of other files.
C36_FileOffsetWithinDuration ==
  FileLoaded =>
    /\ bufferOffset \in 0..Val(decodedBuffer)
    /\ Sampled \in 0..Val(decodedBuffer)

\* A seek in a paused file shorter than the longest, loaded after another
\* source, has left the offset at the end of the buffer.
C36_Witness ==
  /\ FileLoaded /\ Val(decodedBuffer) < MaxFileDur /\ loadCalls = MaxLoadCalls
  /\ lastCall = "seek" /\ state = "paused"
  /\ bufferOffset = Val(decodedBuffer)
  /\ Sampled = Val(decodedBuffer)

\* A playing file source has reached the end of its buffer and no call is in
\* flight.
PlayedOut ==
  /\ FileLoaded /\ state = "playing" /\ calls = << >>
  /\ bufferSource # None
  /\ now - Val(bufferSource) >= Val(decodedBuffer)

\* A file session in which no user action is taken once playback has reached
\* the end of the buffer: then only time passes and the instance fires ended.
PlayedOutNext ==
  \/ ~PlayedOut /\ LoadCall("file")
  \/ \E i \in 1..MaxInFlight : ~PlayedOut /\ LoadFileResumed(i)
  \/ \E i \in 1..MaxInFlight, d \in 1..MaxFileDur :
       ~PlayedOut /\ LoadFileDecoded(i, d)
  \/ ~PlayedOut /\ PlayCall
  \/ \E i \in 1..MaxInFlight : ~PlayedOut /\ PlayResumed(i)
  \/ \E i \in 1..MaxInFlight : ~PlayedOut /\ PlayFileStart(i)
  \/ \E i \in 1..MaxInFlight : ~PlayedOut /\ PlayFileStarted(i)
  \/ \E t \in SeekTargets : ~PlayedOut /\ SeekCall(t)
  \/ \E i \in 1..MaxInFlight : ~PlayedOut /\ SeekFileRestart(i)
  \/ ~PlayedOut /\ Pause
  \/ ~PlayedOut /\ Stop
  \/ Tick
  \/ BufferEnded

\* The browser fires the ended event of an instance that has played out.
PlayedOutSpec == Init /\ [][PlayedOutNext]_vars /\ WF_vars(BufferEnded)

\* The session is ready at the beginning of the file: no instance, logical
\* offset 0, start instant cleared, and the sampler reports 0.
Rewound ==
  /\ state = "ready"
  /\ bufferSource = None
  /\ bufferOffset = 0
  /\ bufferStartedAt = None
  /\ Sampled = 0

\* C37: when a playing file source reaches the end of its buffer and no
\* further user action is taken, the session eventually is ready with the
\* buffer-playback instance disconnected, logical offset 0 and start instant
\* cleared, so the reported elapsed time is 0 and the next play() starts from
\* the beginning.
C37_PlayedOutRewinds == PlayedOut ~> Rewound

\* The ended handler has just run on a file played to its end from a later
\* offset: the session is rewound while currentTime still shows the end.
C37_Witness ==
  /\ FileLoaded /\ Rewound /\ lastCall = NoCall
  /\ currentTime = Val(decodedBuffer)
  /\ now < Val(decodedBuffer)

\* The entries processed since the last play() are the first entries of its
\* score, in order, each resolved from that score's code.
OneSequenceRuns ==
  /\ Len(seqLog) <= Len(seqScore)
  /\ \A j \in 1..Len(seqLog) :
       /\ seqLog[j].entry = j - 1
       /\ seqLog[j].note = FindNoteIndex(seqScore[j].code)

\* C39: at any time at most one Sequencer timer is pending and at most one
\* sequence is running: a play(score) made while a previous sequence runs
\* cancels it first, so afterwards no trigger or highlight of the previous
\* score fires and the new score starts at its first entry.
C39_OneTimerOneSequence ==
  [][/\ Len(seqTimers') <= 1
     /\ OneSequenceRuns'
     /\ \A sc \in Scores :
          (SeqPlay(sc) /\ Len(sc) > 0) =>
            /\ seqLog' = << [entry |-> 0, note |-> FindNoteIndex(sc[1].code),
                             at |-> seqNow] >>
            /\ highlight' = FindNoteIndex(sc[1].code)
            /\ Len(seqTimers') = 1 /\ seqTimers'[1].next = 1]_vars

\* A play() cleared the pending timer of a running sequence, and the new
\* score has since gone on to its second entry.
C39_Witness ==
  /\ seqReplaced = 1
  /\ Len(seqLog) = 2 /\ Len(seqScore) = 2
  /\ seqLog[1].note # seqLog[2].note

\* The note names the engine's table has a frequency for.
KeyLabels == {KALIMBA_KEYS[k].label : k \in 1..Len(KALIMBA_KEYS)}

\* The frequencies of the engine's keys labelled code.
FrequenciesOf(code) ==
  {KALIMBA_KEYS[k].freq : k \in {h \in 1..Len(KALIMBA_KEYS) : KALIMBA_KEYS[h].label = code}}

\* C40: for every index i in 0..16 the note name at position i of
\* KALIMBA_LAYOUT equals the label at position i of KALIMBA_KEYS, so every
\* score code the Sequencer resolves is sounded at the frequency of the same
\* note name; codes absent from the table and indices outside 0..16 produce
\* no tone.
C40_TablesAgree ==
  /\ Len(KALIMBA_LAYOUT) = NumKeys /\ Len(KALIMBA_KEYS) = NumKeys
  /\ \A i \in 0..(NumKeys - 1) : KALIMBA_LAYOUT[i + 1] = KALIMBA_KEYS[i + 1].label
  /\ \A j \in 1..Len(seqLog) :
       IF seqScore[j].code \in KeyLabels
       THEN /\ seqLog[j].note # None
            /\ getKalimbaFrequency(Val(seqLog[j].note)) # None
            /\ FrequenciesOf(seqScore[j].code)
                 = {Val(getKalimbaFrequency(Val(seqLog[j].note)))}
       ELSE seqLog[j].note = None
  /\ \A index \in (0 - 1)..NumKeys :
       index \notin 0..(NumKeys - 1) =>
         /\ getKalimbaFrequency(index) = None
         /\ ~KeyExists(index)

\* A score with a code of the table and a code absent from it has been
\* played: the first resolved to the center key, the second to none.
C40_Witness ==
  /\ Len(seqLog) = 2
  /\ seqScore[1].code = "C4" /\ seqLog[1].note = Some(8)
  /\ getKalimbaFrequency(8) = Some(26163)
  /\ seqScore[2].code = "H9" /\ seqLog[2].note = None

\* ---------------------------------------------------------------------
\* The application: score playback on the engine's instrument.

\* The calls in flight after onPlayNote(note) of a triggerInstrumentNote
\* callback holding the activeSource src: a rest triggers nothing, and the
\* callback returns at once unless src is the instrument and the key exists.
NoteCalls(src, note, cs) ==
  IF note = None
  THEN cs
  ELSE IF src = "instrument" /\ KeyExists(Val(note))
       THEN Append(Overlap(cs), Call("note", "resume", "instrument", Val(note), TRUE))
       ELSE Overlap(cs)

\* The tones a run of the application may start.
NoteRoom == tones + InFlight({"note"}) < MaxTones + MaxScoreLen

\* handlePlayScore(score): when the instrument is not the active source,
\* handleSourceSelect({kind: 'instrument'}) is called and not awaited
\* (loadSource up to its first await); then playScore(score), whose playNext
\* closes over the triggerInstrumentNote of the current render.
HandlePlayScore(sc) ==
  /\ InTask
  /\ ~disposed
  /\ NoteRoom
  /\ LET loads == activeSource # "instrument"
         first == IF Len(sc) = 0 THEN None ELSE FindNoteIndex(sc[1].code)
         cs    == IF loads
                  THEN Append(Supersede(calls),
                              Call("load", "resume", "instrument", 0, calls = << >>))
                  ELSE calls
     IN  /\ loads => loadCalls < MaxLoadCalls
         /\ loadCalls' = (IF loads THEN loadCalls + 1 ELSE loadCalls)
         /\ lastLoad' = (IF loads THEN "instrument" ELSE lastLoad)
         /\ errorMessage' = (IF loads THEN "" ELSE errorMessage)
         /\ state' = (IF loads THEN "loading" ELSE state)
         /\ lastCall' = (IF loads THEN Made("load") ELSE lastCall)
         /\ calls' = NoteCalls(activeSource, first, cs)
         /\ ctx' = (ctx \/ loads \/ Len(calls') > Len(cs))
  /\ UNCHANGED << activeSource, currentTime, duration, now, mediaVars, fileVars,
                  streamVars, tones >>
  /\ loadResult' = "none"
  /\ stopped' = Silenced
  /\ seqScore' = sc
  /\ IF Len(sc) = 0
     THEN /\ seqTimers' = TimersAfterStop(seqTimers)
          /\ seqIsPlaying' = FALSE
          /\ seqCurrentIndex' = None
          /\ highlight' = None
          /\ seqLog' = << >>
          /\ seqDoneAt' = None
     ELSE /\ seqIsPlaying' = TRUE
          /\ seqDoneAt' = None
          /\ PlayNext(sc, 0, TimersAfterStop(seqTimers), << >>)
  /\ seqReplaced' = Len(seqTimers)
  /\ seqCaptured' = activeSource
  /\ UNCHANGED << seqNow, disposed, synthVars >>

\* The note index playNext resolves for the entry timeout k was set for.
TimerNote(k) ==
  IF seqTimers[k].next >= Len(seqScore)
  THEN None
  ELSE FindNoteIndex(seqScore[seqTimers[k].next + 1].code)

\* A pending timeout is due: playNext of its entry, calling the onPlayNote
\* the sequence closed over.
ScoreTimerFires(k) ==
  /\ InTask
  /\ k \in 1..Len(seqTimers)
  /\ seqTimers[k].due <= seqNow
  /\ NoteRoom
  /\ IF seqTimers[k].next >= Len(seqScore)
     THEN PlayNext(seqScore, seqTimers[k].next, RemoveAt(seqTimers, k), seqLog)
     ELSE /\ PlayNext(seqScore, seqTimers[k].next, RemoveAt(seqTimers, k), seqLog)
          /\ UNCHANGED << seqIsPlaying, seqDoneAt >>
  /\ calls' = NoteCalls(seqCaptured, TimerNote(k), calls)
  /\ ctx' = (ctx \/ Len(calls') > Len(calls))
  /\ UNCHANGED << reactVars, now, mediaVars, fileVars, streamVars, tones,
                  loadCalls, lastCall, lastLoad >>
  /\ loadResult' = "none"
  /\ stopped' = Silenced
  /\ UNCHANGED << seqScore, seqReplaced, seqCaptured, seqNow, disposed, synthVars >>

\* The scores the application plays: every entry lasts two base units.
EvenScores == {sc \in Scores : \A j \in 1..Len(sc) : sc[j].duration = "2"}

\* The application playing scores: the instrument load and the tones go on
\* in the engine while the Sequencer's timeouts fire.
AppNext ==
  \/ \E sc \in EvenScores : HandlePlayScore(sc)
  \/ \E i \in 1..MaxInFlight : LoadInstrumentResumed(i)
  \/ \E k \in 1..MaxScoreLen : ScoreTimerFires(k)
  \/ \E i \in 1..MaxInFlight : TriggerResumed(i)
  \/ SeqStop
  \/ SeqAdvance

AppSpec == Init /\ [][AppNext]_vars

\* Timeout k fires for a non-rest entry of a score whose playback was
\* requested while the instrument was not the active source, after the
\* instrument load has completed.
LateNoteFires(k) ==
  /\ k \in 1..Len(seqTimers)
  /\ seqCaptured # "instrument"
  /\ activeSource = "instrument" /\ state = "ready" /\ InFlight({"load"}) = 0
  /\ TimerNote(k) # None
  /\ ScoreTimerFires(k)

\* C38: when score playback is requested while the active source is not the
\* instrument, the application switches to the instrument and plays the
\* score: every non-rest note of the score whose timer fires after the
\* instrument load has completed produces a tone.
C38_ScoreSoundsAfterSwitch ==
  [][\A k \in 1..MaxScoreLen :
       LateNoteFires(k) => InFlight({"note"})' = InFlight({"note"}) + 1]_vars

====
